---- MODULE Spec2Model ----
(***************************************************************************)
(* State-machine model of the JTS clinical voice assistant:                *)
(*   - the dose calculator (scripts/voice_calculator_assistant.py),        *)
(*   - the bounded conversation history of the interactive loops,          *)
(*   - the indexing pipeline (scripts/build_index.py, scripts/utils.py),   *)
(*   - the response routers (scripts/ask_hybrid.py, scripts/ask_cloud.py). *)
(*                                                                         *)
(* Texts are TLA+ strings; Python's str operations (lower, in, split,      *)
(* strip, re.search) are computed character by character.                  *)
(* Decimal quantities are fixed-point integers: doses are in hundredths of *)
(* the rule's unit (Scale), so 1.5 mg/kg is 150.  The arithmetic of the    *)
(* model is exact; Python's binary floating point adds representation      *)
(* error on top of it (0.3 * 3 = 0.8999999999999999).                      *)
(***************************************************************************)
EXTENDS Integers, Sequences, FiniteSets, TLC

VARIABLES
    \* ---- dose calculator: calculate_dose as a pure function
    dDrug,          \* drug argument
    dWeight,        \* weight_kg argument
    dIndication,    \* indication argument (free text)
    dResult,        \* the returned tuple, <<>> before the call
    \* ---- dose calculator: the session loop of main()
    cPc,            \* "listening" | "stopped"
    cUseAi,         \* use_ai
    cQuestion,      \* the question of the last handled turn, <<>> before
    cWeight,        \* weight extracted in the last turn
    cDrug,          \* drug extracted in the last turn
    cDose,          \* calculated_dose of the last turn
    cResponse,      \* response spoken in the last turn
    cContext,       \* voice_jts_vm: context (weight, drug, indication)
    cHistory,       \* voice_jts_vm: conversation_history of main
    cMessages,      \* voice_jts_vm: messages of the last chat request
    cTurns,         \* voice_jts_vm: the turns handled so far
    \* ---- conversation history of an interactive question loop
    hScript,        \* the loop that runs
    hPc,            \* "prompt" | "stopped"
    hHistory,       \* conversation_history
    hLog,           \* every completed turn, oldest first (history variable)
    hPrompt,        \* the retrieved chunks and the prompt of the last model call
    \* ---- indexing pipeline
    iPc,            \* "start" | "built" | "exit 1" | "loaded"
    iFiles,         \* the files of PDFS_DIR, in os.listdir order
    iIndex,         \* the FAISS index: one vector per chunk, kept as the chunk
    iMetadata,      \* the content of METADATA_PATH
    iDocsFile,      \* the content of DOCS_PATH
    iDocs,          \* docs of the query script: DOCS_PATH read with readlines
    iOld,           \* the three files as they were before the run
    iReader,        \* a query script loading the files while the run writes
    iAnswer,        \* the outcome of the last query, <<>> before
    \* ---- response router of ask_hybrid / ask_cloud
    rScript,        \* "ask_hybrid" | "ask_cloud"
    rLlm,           \* ask_hybrid: llm is not None
    rApis,          \* ask_cloud: the keys of apis
    rPc,            \* "prompt" | "stopped"
    rHistory,       \* conversation_history
    rTurn           \* trace of the last completed turn, <<>> before

doseVars == <<dDrug, dWeight, dIndication, dResult>>
calcVars ==
    <<cPc, cUseAi, cQuestion, cWeight, cDrug, cDose, cResponse,
      cContext, cHistory, cMessages, cTurns>>
histVars == <<hScript, hPc, hHistory, hLog, hPrompt>>
indexVars ==
    <<iPc, iFiles, iIndex, iMetadata, iDocsFile, iDocs, iOld, iReader, iAnswer>>
routerVars == <<rScript, rLlm, rApis, rPc, rHistory, rTurn>>
vars == <<doseVars, calcVars, histVars, indexVars, routerVars>>

(***************************************************************************)
(* Python values                                                           *)
(***************************************************************************)
\* None and a present value: an optional is a sequence of length 0 or 1.
None == <<>>
Some(v) == <<v>>
Val(o) == o[1]

(***************************************************************************)
(* Strings                                                                 *)
(***************************************************************************)
Char(s, i) == SubSeq(s, i, i)

\* The least element of a non-empty set of integers.
MinOf(S) == CHOOSE x \in S : \A y \in S : x <= y

\* str.lower() of one character.
LowerOf ==
    [c \in {"A", "B", "C", "D", "E", "F", "G", "H", "I", "J", "K", "L", "M",
            "N", "O", "P", "Q", "R", "S", "T", "U", "V", "W", "X", "Y", "Z"} |->
        CASE c = "A" -> "a" [] c = "B" -> "b" [] c = "C" -> "c" [] c = "D" -> "d"
          [] c = "E" -> "e" [] c = "F" -> "f" [] c = "G" -> "g" [] c = "H" -> "h"
          [] c = "I" -> "i" [] c = "J" -> "j" [] c = "K" -> "k" [] c = "L" -> "l"
          [] c = "M" -> "m" [] c = "N" -> "n" [] c = "O" -> "o" [] c = "P" -> "p"
          [] c = "Q" -> "q" [] c = "R" -> "r" [] c = "S" -> "s" [] c = "T" -> "t"
          [] c = "U" -> "u" [] c = "V" -> "v" [] c = "W" -> "w" [] c = "X" -> "x"
          [] c = "Y" -> "y" [] c = "Z" -> "z"]

DigitOf ==
    [c \in {"0", "1", "2", "3", "4", "5", "6", "7", "8", "9"} |->
        CASE c = "0" -> 0 [] c = "1" -> 1 [] c = "2" -> 2 [] c = "3" -> 3
          [] c = "4" -> 4 [] c = "5" -> 5 [] c = "6" -> 6 [] c = "7" -> 7
          [] c = "8" -> 8 [] c = "9" -> 9]

IsDigit(c) == c \in DOMAIN DigitOf
IsSpace(c) == c \in {" ", "\n", "\t", "\r"}
\* \w
IsWordChar(c) ==
    \/ IsDigit(c)
    \/ c = "_"
    \/ c \in DOMAIN LowerOf
    \/ c \in {LowerOf[u] : u \in DOMAIN LowerOf}

LowerChar(c) == IF c \in DOMAIN LowerOf THEN LowerOf[c] ELSE c

\* str.lower()
RECURSIVE lower(_)
lower(s) == IF s = "" THEN "" ELSE LowerChar(Head(s)) \o lower(Tail(s))

\* sub in s
Contains(s, sub) ==
    \E i \in 1..(Len(s) - Len(sub) + 1) : SubSeq(s, i, i + Len(sub) - 1) = sub

\* s[m:].startswith(u), m a 1-based position
StartsWithAt(s, m, u) ==
    /\ m + Len(u) - 1 <= Len(s)
    /\ SubSeq(s, m, m + Len(u) - 1) = u

\* s.replace(old, new), old not empty
RECURSIVE Replace(_, _, _)
Replace(s, old, new) ==
    IF Len(s) < Len(old) THEN s
    ELSE IF SubSeq(s, 1, Len(old)) = old
         THEN new \o Replace(SubSeq(s, Len(old) + 1, Len(s)), old, new)
         ELSE Head(s) \o Replace(Tail(s), old, new)

\* int(digits)
RECURSIVE ParseInt(_)
ParseInt(ds) ==
    IF ds = "" THEN 0
    ELSE ParseInt(SubSeq(ds, 1, Len(ds) - 1)) * 10 + DigitOf[Char(ds, Len(ds))]

Min2(a, b) == IF a < b THEN a ELSE b

\* s[:n]
Prefix(s, n) == SubSeq(s, 1, Min2(n, Len(s)))

\* sep.join(parts)
RECURSIVE join(_, _)
join(sep, parts) ==
    IF parts = <<>> THEN ""
    ELSE IF Len(parts) = 1 THEN parts[1]
    ELSE (parts[1] \o sep) \o join(sep, Tail(parts))

(***************************************************************************)
(* re.search for the weight patterns.  A search returns group(1) of the    *)
(* leftmost match, or None.                                                *)
(***************************************************************************)
\* Last position of the run of digits that starts at i (s[i] is a digit).
RECURSIVE DigitRunEnd(_, _)
DigitRunEnd(s, i) ==
    IF i < Len(s) /\ IsDigit(Char(s, i + 1)) THEN DigitRunEnd(s, i + 1) ELSE i

\* First position at or after j that holds no whitespace (Len(s)+1 if none).
RECURSIVE SkipSpaces(_, _)
SkipSpaces(s, j) ==
    IF j <= Len(s) /\ IsSpace(Char(s, j)) THEN SkipSpaces(s, j + 1) ELSE j

\* (\d+)\s*(?:u1|u2|...) matches starting at position i.  \d+ is greedy and
\* every unit starts with a letter, so the group is the whole run from i.
NumUnitAt(s, i, units) ==
    /\ i <= Len(s)
    /\ IsDigit(Char(s, i))
    /\ \E u \in units : StartsWithAt(s, SkipSpaces(s, DigitRunEnd(s, i) + 1), u)

\* re.search(r'(\d+)\s*(?:units)', s)
SearchNumUnit(s, units) ==
    LET at == {i \in 1..Len(s) : NumUnitAt(s, i, units)}
    IN  IF at = {} THEN None
        ELSE Some(SubSeq(s, MinOf(at), DigitRunEnd(s, MinOf(at))))

\* prefix\s*(\d+) matches with the prefix starting at position i.
PrefixNumAt(s, i, prefix) ==
    /\ StartsWithAt(s, i, prefix)
    /\ LET m == SkipSpaces(s, i + Len(prefix))
       IN  m <= Len(s) /\ IsDigit(Char(s, m))

\* re.search(r'weighs?\s*(\d+)', s).  At one position 'weighs' is tried
\* before 'weigh'; 'weigh' alone cannot match where an 's' follows.
SearchWeighs(s) ==
    LET at == {i \in 1..Len(s) :
                  PrefixNumAt(s, i, "weighs") \/ PrefixNumAt(s, i, "weigh")}
    IN  IF at = {} THEN None
        ELSE LET i == MinOf(at)
                 pre == IF PrefixNumAt(s, i, "weighs") THEN "weighs" ELSE "weigh"
                 m == SkipSpaces(s, i + Len(pre))
             IN  Some(SubSeq(s, m, DigitRunEnd(s, m)))

\* (\d+)\s*(?:units)\s*suffix matches starting at position i.
NumUnitSuffixAt(s, i, units, suffix) ==
    /\ IsDigit(Char(s, i))
    /\ \E u \in units :
          LET m == SkipSpaces(s, DigitRunEnd(s, i) + 1)
          IN  /\ StartsWithAt(s, m, u)
              /\ StartsWithAt(s, SkipSpaces(s, m + Len(u)), suffix)

\* re.search(r'(\d+)\s*(?:units)\s*suffix', s)
SearchNumUnitSuffix(s, units, suffix) ==
    LET at == {i \in 1..Len(s) : NumUnitSuffixAt(s, i, units, suffix)}
    IN  IF at = {} THEN None
        ELSE Some(SubSeq(s, MinOf(at), DigitRunEnd(s, MinOf(at))))

\* prefix\s*(\d+)\s*(?:units) matches with the prefix starting at position i.
PrefixNumUnitAt(s, i, prefix, units) ==
    /\ PrefixNumAt(s, i, prefix)
    /\ NumUnitAt(s, SkipSpaces(s, i + Len(prefix)), units)

\* re.search(r'prefix\s*(\d+)\s*(?:units)', s)
SearchPrefixNumUnit(s, prefix, units) ==
    LET at == {i \in 1..Len(s) : PrefixNumUnitAt(s, i, prefix, units)}
    IN  IF at = {} THEN None
        ELSE LET m == SkipSpaces(s, MinOf(at) + Len(prefix))
             IN  Some(SubSeq(s, m, DigitRunEnd(s, m)))

(***************************************************************************)
(* scripts/voice_calculator_assistant.py : extract_weight_and_drug         *)
(***************************************************************************)
KgUnits == {"kg", "kilo", "kilos", "kilogram", "kilograms"}

\* weight_patterns[k - 1] searched in text_lower.
weight_patterns(k, text_lower) ==
    CASE k = 1 -> SearchNumUnit(text_lower, KgUnits)
      [] k = 2 -> SearchNumUnit(text_lower, {"pound", "pounds", "lb", "lbs"})
      [] k = 3 -> SearchWeighs(text_lower)
      [] k = 4 -> SearchNumUnitSuffix(text_lower, KgUnits, "patient")
      [] k = 5 -> SearchPrefixNumUnit(text_lower, "patient", KgUnits)

\* The synonym table, in dict order: <<key, canonical name>>.
drugs ==
    << <<"ketamine", "ketamine">>,
       <<"ket", "ketamine">>,
       <<"rocuronium", "rocuronium">>,
       <<"rocur", "rocuronium">>,
       <<"roc", "rocuronium">>,
       <<"succinylcholine", "succinylcholine">>,
       <<"succ", "succinylcholine">>,
       <<"succs", "succinylcholine">>,
       <<"fentanyl", "fentanyl">>,
       <<"fent", "fentanyl">>,
       <<"morphine", "morphine">>,
       <<"morph", "morphine">>,
       <<"midazolam", "midazolam">>,
       <<"versed", "midazolam">>,
       <<"propofol", "propofol">>,
       <<"prop", "propofol">>,
       <<"etomidate", "etomidate">>,
       <<"etom", "etomidate">>,
       <<"txa", "tranexamic acid">>,
       <<"tranexamic", "tranexamic acid">>,
       <<"tranexamic acid", "tranexamic acid">> >>

\* The weight loop from pattern k on: the first pattern that matches gives
\* int(match.group(1)) and ends the loop.
RECURSIVE WeightFrom(_, _)
WeightFrom(k, text_lower) ==
    IF k > 5 THEN None
    ELSE LET match == weight_patterns(k, text_lower)
         IN  IF match # None THEN Some(ParseInt(Val(match)))
             ELSE WeightFrom(k + 1, text_lower)

\* The drug loop: the first key of the table that occurs in the text.
ExtractDrug(text_lower) ==
    LET found == {k \in 1..Len(drugs) : Contains(text_lower, drugs[k][1])}
    IN  IF found = {} THEN None ELSE Some(drugs[MinOf(found)][2])

\* extract_weight_and_drug(text) = (weight, drug)
ExtractFromLower(text_lower) ==
    <<WeightFrom(1, text_lower), ExtractDrug(text_lower)>>

extract_weight_and_drug(text) == ExtractFromLower(lower(text))

(***************************************************************************)
(* scripts/voice_calculator_assistant.py : calculate_dose                  *)
(***************************************************************************)
\* Fixed-point scale of the decimal literals of the dosing table.
Scale == 100

\* One rule of the table.  dose and max are in 1/Scale of the unit; a rule
\* without the key 'max' has hasMax = FALSE, without 'fixed' has fixed = FALSE.
Rule(ind, dose, unit, hasMax, max, fixed) ==
    [ind |-> ind, dose |-> dose, unit |-> unit,
     hasMax |-> hasMax, max |-> max, fixed |-> fixed]

\* The dosing table; each drug's rules in dict order.
dosing_protocols ==
    ("ketamine" :>
        << Rule("rsi", 150, "mg/kg", TRUE, 200 * Scale, FALSE),
           Rule("pain", 30, "mg/kg", TRUE, 50 * Scale, FALSE),
           Rule("sedation", 100, "mg/kg", TRUE, 100 * Scale, FALSE) >>)
    @@ ("rocuronium" :>
        << Rule("rsi", 120, "mg/kg", TRUE, 120 * Scale, FALSE),
           Rule("general", 60, "mg/kg", TRUE, 60 * Scale, FALSE) >>)
    @@ ("succinylcholine" :>
        << Rule("rsi", 150, "mg/kg", TRUE, 150 * Scale, FALSE) >>)
    @@ ("fentanyl" :>
        << Rule("pain", 100, "mcg/kg", TRUE, 100 * Scale, FALSE),
           Rule("rsi", 200, "mcg/kg", TRUE, 200 * Scale, FALSE) >>)
    @@ ("morphine" :>
        << Rule("pain", 10, "mg/kg", TRUE, 10 * Scale, FALSE) >>)
    @@ ("midazolam" :>
        << Rule("sedation", 5, "mg/kg", TRUE, 5 * Scale, FALSE),
           Rule("rsi", 10, "mg/kg", TRUE, 10 * Scale, FALSE) >>)
    @@ ("propofol" :>
        << Rule("induction", 200, "mg/kg", TRUE, 200 * Scale, FALSE),
           Rule("sedation", 50, "mg/kg", TRUE, 50 * Scale, FALSE) >>)
    @@ ("etomidate" :>
        << Rule("rsi", 30, "mg/kg", TRUE, 30 * Scale, FALSE) >>)
    @@ ("tranexamic acid" :>
        << Rule("trauma", 1000 * Scale, "mg", FALSE, 0, TRUE) >>)

\* indication in dosing_protocols[drug]
HasIndication(drug, ind) ==
    \E k \in 1..Len(dosing_protocols[drug]) : dosing_protocols[drug][k].ind = ind

\* dosing_protocols[drug][indication]
Protocol(drug, ind) ==
    LET rs == dosing_protocols[drug]
    IN  rs[CHOOSE k \in 1..Len(rs) : rs[k].ind = ind]

\* Faulty variant of FirstIndication: the last key of the drug's table.
LastIndication(drug) == dosing_protocols[drug][Len(dosing_protocols[drug])].ind

\* list(dosing_protocols[drug].keys())[0]
FirstIndication(drug) == dosing_protocols[drug][1].ind

\* The keyword chain that determines the indication from the free text.
DetermineIndication(drug, indication) ==
    LET t == lower(indication)
        kw == IF Contains(t, "rsi") \/ Contains(t, "rapid sequence") THEN "rsi"
              ELSE IF Contains(t, "pain") THEN "pain"
              ELSE IF Contains(t, "sedation") THEN "sedation"
              ELSE IF Contains(t, "induction") THEN "induction"
              ELSE IF Contains(t, "trauma") THEN "trauma"
              ELSE FirstIndication(drug)
    IN  IF HasIndication(drug, kw) THEN kw ELSE FirstIndication(drug)

\* Faulty variant of IsFixed: the 'fixed' flag is not consulted.
IsFixedIgnored(protocol) == FALSE

\* protocol.get('fixed', False)
IsFixed(protocol) == protocol.fixed

\* Faulty variant of ApplyMax: the comparison with max is inverted.
ApplyMaxInverted(protocol, total_dose) ==
    IF protocol.hasMax /\ total_dose < protocol.max
    THEN protocol.max
    ELSE total_dose

\* if 'max' in protocol and total_dose > protocol['max']: total_dose = max
ApplyMax(protocol, total_dose) ==
    IF protocol.hasMax /\ total_dose > protocol.max
    THEN protocol.max
    ELSE total_dose

\* calculate_dose(drug, weight_kg, indication): (None, message) for an unknown
\* drug, else (total_dose, unit, indication); total_dose is in 1/Scale units.
calculate_dose(drug, weight_kg, indication) ==
    IF drug \notin DOMAIN dosing_protocols
    THEN <<None, "Drug not found in protocols">>
    ELSE LET ind == DetermineIndication(drug, indication)
             protocol == Protocol(drug, ind)
         IN  IF IsFixed(protocol)
             THEN <<protocol.dose, protocol.unit, ind>>
             ELSE <<ApplyMax(protocol, protocol.dose * weight_kg),
                    protocol.unit, ind>>

(***************************************************************************)
(* Specification SpecDose: calculate_dose applied to drawn arguments        *)
(***************************************************************************)
\* Largest weight drawn, in kg: above 166, where the last maximum is reached.
MaxWeight == 170

\* The areas a specification does not exercise keep these values.
Idle(area) ==
    /\ IF area = "dose" THEN TRUE
       ELSE /\ dDrug = "ketamine"
            /\ dWeight = 1
            /\ dIndication = "general"
            /\ dResult = <<>>
    /\ IF area = "calc" THEN TRUE
       ELSE /\ cPc = "off"
            /\ cUseAi = FALSE
            /\ cQuestion = None
            /\ cWeight = None
            /\ cDrug = None
            /\ cDose = None
            /\ cResponse = None
            /\ cContext = [weight |-> None, drug |-> None, indication |-> None]
            /\ cHistory = <<>>
            /\ cMessages = None
            /\ cTurns = 0
    /\ IF area = "history" THEN TRUE
       ELSE /\ hScript = "none"
            /\ hPc = "off"
            /\ hHistory = <<>>
            /\ hLog = <<>>
            /\ hPrompt = <<>>
    /\ IF area = "index" THEN TRUE
       ELSE /\ iPc = "off"
            /\ iFiles = <<>>
            /\ iIndex = <<>>
            /\ iMetadata = <<>>
            /\ iDocsFile = ""
            /\ iDocs = <<>>
            /\ iOld = <<>>
            /\ iReader = <<>>
            /\ iAnswer = <<>>
    /\ IF area = "router" THEN TRUE
       ELSE /\ rScript = "none"
            /\ rLlm = FALSE
            /\ rApis = {}
            /\ rPc = "off"
            /\ rHistory = <<>>
            /\ rTurn = <<>>

InitDose ==
    /\ dDrug \in (DOMAIN dosing_protocols) \cup {"epinephrine"}
    /\ dWeight \in 1..MaxWeight
    /\ dIndication \in
           {"general", "rsi", "pain", "sedation", "induction", "trauma",
            "Ketamine RSI for 80 kg patient", "rapid sequence intubation",
            "TXA for trauma"}
    /\ dResult = <<>>
    /\ Idle("dose")

\* The call calculate_dose(drug, weight_kg, indication).
Calculate ==
    /\ dResult = <<>>
    /\ dResult' = calculate_dose(dDrug, dWeight, dIndication)
    /\ UNCHANGED <<dDrug, dWeight, dIndication, calcVars, histVars, indexVars, routerVars>>

SpecDose == InitDose /\ [][Calculate]_vars

\* round(x, 1) of an exact decimal x given in 1/Scale: the nearest tenth,
\* a tie going to the even tenth.
Round1(x) ==
    LET q == x \div 10
        r == x % 10
    IN  IF r < 5 THEN q * 10
        ELSE IF r > 5 THEN (q + 1) * 10
        ELSE IF q % 2 = 0 THEN q * 10 ELSE (q + 1) * 10

\* A call has returned a dose: the tuple (total_dose, unit, indication).
Returned == dResult # <<>> /\ Len(dResult) = 3

\* The rule the call applied: the one of the indication it returns.
AppliedRule == Protocol(dDrug, dResult[3])

\* C3: for a weight-scaled rule with per-kg dose d and a weight w > 0 with
\* d*w not above the rule's max, calculate_dose returns round(d*w, 1).
C3_DoseIsRoundedProduct ==
    Returned =>
        LET p == AppliedRule
        IN  (~p.fixed /\ p.hasMax /\ p.dose * dWeight <= p.max) =>
                dResult[1] = Round1(p.dose * dWeight)

\* C4: for a weight-scaled rule with a max, a weight with d*w > max gives a
\* dose equal to max; for all weights the dose never exceeds max; clamping
\* the returned dose again leaves it unchanged.
C4_ClampedToMax ==
    Returned =>
        LET p == AppliedRule
        IN  (~p.fixed /\ p.hasMax) =>
                /\ p.dose * dWeight > p.max => dResult[1] = p.max
                /\ dResult[1] <= p.max
                /\ ApplyMax(p, dResult[1]) = dResult[1]

\* C4 witness: a call whose product exceeds the rule's max has returned max.
C4_Witness ==
    /\ Returned
    /\ dDrug = "ketamine"
    /\ dResult[3] = "rsi"
    /\ 150 * dWeight > 200 * Scale
    /\ dResult[1] = 200 * Scale

\* C5: the fixed-dose rule (tranexamic acid / trauma, 1000 mg) returns the
\* same dose and unit whatever the weight: the call with this state's weight
\* agrees with the calls for the smallest and the largest weight, so any two
\* weights agree; the dose is the rule's, neither scaled nor clamped.
C5_FixedDoseIgnoresWeight ==
    (dResult # <<>> /\ dDrug = "tranexamic acid") =>
        /\ dResult = <<1000 * Scale, "mg", "trauma">>
        /\ calculate_dose(dDrug, 1, dIndication) = dResult
        /\ calculate_dose(dDrug, MaxWeight, dIndication) = dResult

\* C5 witness: the fixed-dose rule has been applied to a weight other than 1 kg.
C5_Witness ==
    /\ Returned
    /\ dDrug = "tranexamic acid"
    /\ dWeight > 1
    /\ dResult[1] = 1000 * Scale

(***************************************************************************)
(* scripts/voice_calculator_assistant.py : responses and main()            *)
(*                                                                         *)
(* A response is kept as the name of its f-string and the values the       *)
(* f-string interpolates; the layout of the sentence is not modelled.      *)
(***************************************************************************)
\* Python truth value of an optional number: None and 0 are false.
Truthy(o) == o # None /\ Val(o) # 0

\* calculated_dose and calculated_dose[0]: the tuple is never empty; its
\* first element is None in the 2-tuple of an unknown drug, else the dose.
DoseTruthy(calculated_dose) ==
    IF Len(calculated_dose) = 2 THEN FALSE ELSE calculated_dose[1] # 0

\* get_fallback_response(question, weight, drug, calculated_dose)
get_fallback_response(question, weight, drug, calculated_dose) ==
    IF calculated_dose # None
    THEN [kind |-> "calculated",
          drug |-> drug,
          indication |-> calculated_dose[3],
          weight |-> weight,
          dose |-> calculated_dose[1],
          display_unit |-> IF Contains(calculated_dose[2], "/kg")
                           THEN Replace(calculated_dose[2], "/kg", "")
                           ELSE calculated_dose[2]]
    ELSE [kind |-> "specify weight and drug", question |-> question]

\* What the chat completion does: it returns a text or raises.

\* get_ai_enhanced_response(question, weight, drug, calculated_dose) for a
\* session that has an API key; a raised exception gives the fallback.
get_ai_enhanced_response(question, weight, drug, calculated_dose, ai) ==
    IF ai = "raise"
    THEN get_fallback_response(question, weight, drug, calculated_dose)
    ELSE [kind |-> "ai text", dose_info |-> calculated_dose]

\* The quit phrases of main().
QuitWords == {"quit", "exit", "q", "bye", "stop", "goodbye"}

\* The branch taken with a weight and a drug: <<calculated_dose, response>>.
RespondWithDose(question, weight, drug, calculated_dose, use_ai, ai) ==
    IF DoseTruthy(calculated_dose)
    THEN <<calculated_dose,
           IF use_ai
           THEN get_ai_enhanced_response(question, weight, drug, calculated_dose, ai)
           ELSE get_fallback_response(question, weight, drug, calculated_dose)>>
    ELSE <<calculated_dose, [kind |-> "could not calculate", drug |-> drug]>>

\* The branches after the extraction: <<weight, drug, calculated_dose, response>>.
RespondTo(question, weight, drug, use_ai, ai) ==
    IF Truthy(weight) /\ drug # None
    THEN <<weight, drug>>
         \o RespondWithDose(question, Val(weight), Val(drug),
                            calculate_dose(Val(drug), Val(weight), question),
                            use_ai, ai)
    ELSE <<weight, drug, None,
           IF ~Truthy(weight)
           THEN [kind |-> "weight not understood"]
           ELSE [kind |-> "drug not understood"]>>

\* weight, drug = extract_weight_and_drug(question), then the branches.
RespondToExtracted(question, wd, use_ai, ai) ==
    RespondTo(question, wd[1], wd[2], use_ai, ai)

\* The body of the loop for a recognised question that is no quit phrase:
\* <<weight, drug, calculated_dose, response>>.
HandleQuestion(question, use_ai, ai) ==
    RespondToExtracted(question, extract_weight_and_drug(question), use_ai, ai)

(***************************************************************************)
(* Specification SpecCalc: the session loop of the dose calculator         *)
(***************************************************************************)
\* The questions the recogniser may deliver.
CalcQueries ==
    { d \o " " \o k \o (IF w = "" THEN "" ELSE " " \o w) :
        d \in {"Ketamine", "morphine", "TXA", "fentanyl", "midazolam", "epinephrine"},
        k \in {"RSI", "pain", "dose"},
        w \in {"", "for 80 kg patient", "for a 37 kg patient", "176 lbs"} }
    \cup {"TXA for trauma", "ketamine RSI for 80 kg patient",
          "fentanyl pain before the procedure for 80 kg patient",
          "propofol sedation, patient weighs 70", "ketamine 0 kg",
          "Goodbye", "stop"}

InitCalc ==
    /\ cPc = "listening"
    /\ cUseAi \in BOOLEAN
    /\ cQuestion = None
    /\ cWeight = None
    /\ cDrug = None
    /\ cDose = None
    /\ cResponse = None
    /\ cContext = [weight |-> None, drug |-> None, indication |-> None]
    /\ cHistory = <<>>
    /\ cMessages = None
    /\ cTurns = 0
    /\ Idle("calc")

\* listen_for_speech returned None: 'continue'.
NoSpeech ==
    /\ cPc = "listening"
    /\ UNCHANGED vars

\* A quit phrase: the farewell is spoken and the loop ends.
Quit(question) ==
    /\ cPc = "listening"
    /\ lower(question) \in QuitWords
    /\ cPc' = "stopped"
    /\ UNCHANGED <<cUseAi, cQuestion, cWeight, cDrug, cDose, cResponse>>
    /\ UNCHANGED <<cContext, cHistory, cMessages, cTurns>>
    /\ UNCHANGED <<doseVars, histVars, indexVars, routerVars>>

\* The values a turn leaves behind.
TurnResult(question, r) ==
    /\ cQuestion' = Some(question)
    /\ cWeight' = r[1]
    /\ cDrug' = r[2]
    /\ cDose' = r[3]
    /\ cResponse' = Some(r[4])

\* One turn: extract, calculate, respond, speak.
Ask(question, ai) ==
    /\ cPc = "listening"
    /\ lower(question) \notin QuitWords
    /\ TurnResult(question, HandleQuestion(question, cUseAi, ai))
    /\ UNCHANGED <<cContext, cHistory, cMessages, cTurns>>
    /\ UNCHANGED <<cPc, cUseAi, doseVars, histVars, indexVars, routerVars>>

NextCalc ==
    \/ NoSpeech
    \/ \E question \in CalcQueries : Quit(question)
    \/ \E question \in CalcQueries, ai \in {"text", "raise"} : Ask(question, ai)

SpecCalc == InitCalc /\ [][NextCalc]_vars

\* C6: a question that names the fixed-dose drug (tranexamic acid) and states
\* no weight is answered with a response that reports the fixed dose, 1000 mg.
C6_FixedDoseWithoutWeight ==
    (cQuestion # None /\ cDrug = Some("tranexamic acid") /\ cWeight = None) =>
        \/ /\ Val(cResponse).kind = "calculated"
           /\ Val(cResponse).dose = 1000 * Scale
        \/ /\ Val(cResponse).kind = "ai text"
           /\ Val(cResponse).dose_info[1] = 1000 * Scale

\* C7: a question containing "<n> kg", a canonical drug name and an indication
\* keyword that the drug has a rule for gives weight n, that drug and that
\* indication; for ketamine, rsi and 80 kg the total dose is 120.0, in mg.
C7_ExtractedAsStated ==
    cQuestion # None =>
        \A n \in {37, 80}, d \in DOMAIN dosing_protocols,
           k \in {"rsi", "pain", "sedation", "induction", "trauma"} :
            ( /\ Contains(lower(Val(cQuestion)), " " \o ToString(n) \o " kg")
              /\ Contains(lower(Val(cQuestion)), d)
              /\ Contains(lower(Val(cQuestion)), k)
              /\ HasIndication(d, k) ) =>
                /\ cWeight = Some(n)
                /\ cDrug = Some(d)
                /\ Len(cDose) = 3
                /\ cDose[3] = k
                /\ (d = "ketamine" /\ k = "rsi" /\ n = 80) =>
                       /\ cDose[1] = 120 * Scale
                       /\ Val(cResponse).kind = "calculated" =>
                              Val(cResponse).display_unit = "mg"

(***************************************************************************)
(* The conversation history of the interactive loops                       *)
(*   scripts/ask_hybrid.py, scripts/ask_cloud.py,                          *)
(*   scripts/ask_conversational.py, scripts/ask_interactive.py,            *)
(*   scripts/ask_voice.py, voice_assistant.py (VoiceAssistant)             *)
(***************************************************************************)
\* config.py: the default of the environment variable of the same name.
MAX_CONVERSATION_HISTORY == 10

HistoryLoops ==
    {"ask_hybrid", "ask_cloud", "ask_conversational", "ask_interactive",
     "ask_voice", "VoiceAssistant"}

\* The number each loop compares len(conversation_history) with.
HistoryCap(script) ==
    CASE script = "ask_voice" -> 3
      [] script = "VoiceAssistant" -> MAX_CONVERSATION_HISTORY
      [] OTHER -> 5

\* A history that loses its newest entry.
PopLast(history) == SubSeq(history, 1, Len(history) - 1)

\* conversation_history.pop(0)
Pop0(history) == Tail(history)

\* conversation_history.append(turn), then
\* if len(conversation_history) > cap: conversation_history.pop(0)
StoreConversation(history, turn, cap) ==
    IF Len(Append(history, turn)) > cap
    THEN Pop0(Append(history, turn))
    ELSE Append(history, turn)

(***************************************************************************)
(* Specification SpecHistory: one of the loops, answering questions        *)
(***************************************************************************)
\* Completed turns per session: more than the largest cap plus one.
MaxTurns == 12

\* The entry a completed turn stores.
TurnOf(question) ==
    [question |-> question, response |-> "answer to " \o question]

InitHistory ==
    /\ hScript \in HistoryLoops
    /\ hPc = "prompt"
    /\ hHistory = <<>>
    /\ hLog = <<>>
    /\ hPrompt = None
    /\ Idle("history")

\* An empty question: 'continue'.
HEmptyQuestion ==
    /\ hPc = "prompt"
    /\ UNCHANGED vars

\* The search or the generation raises: the handler reports the error and
\* nothing is stored.
HTurnRaises ==
    /\ hPc = "prompt"
    /\ UNCHANGED vars

\* Faulty variant of prompt: the first three turns of the history.
PromptOfFirstTurns(question, clinical_info, conversation_history) ==
    [context |-> IF clinical_info # <<>> THEN join(" ", Prefix(clinical_info, 2))
                 ELSE "No specific clinical data available.",
     history |-> join("", [k \in 1..Min2(3, Len(conversation_history)) |->
                              "User: " \o conversation_history[k].question
                              \o "\nAssistant: "
                              \o conversation_history[k].response \o "\n"]),
     question |-> question]

\* get_llm_response and get_gemini_response, up to the call: the three parts
\* put into the text of the prompt.  context is " ".join(clinical_info[:2]),
\* history the lines of conversation_history[-3:].
prompt(question, clinical_info, conversation_history) ==
    [context |-> IF clinical_info # <<>> THEN join(" ", Prefix(clinical_info, 2))
                 ELSE "No specific clinical data available.",
     history |-> join("", [k \in 1..Min2(3, Len(conversation_history)) |->
                              "User: "
                              \o conversation_history[
                                     Len(conversation_history)
                                     - Min2(3, Len(conversation_history)) + k].question
                              \o "\nAssistant: "
                              \o conversation_history[
                                     Len(conversation_history)
                                     - Min2(3, Len(conversation_history)) + k].response
                              \o "\n"]),
     question |-> question]

\* A completed turn: the response is produced and stored.  In ask_hybrid and
\* ask_cloud the response may come from a model call, whose prompt is built
\* from what the search returned and the history as it stands.
HCompleteTurn(question) ==
    /\ hPc = "prompt"
    /\ Len(hLog) < MaxTurns
    /\ \E clinical_info \in {<<>>, <<"Immobilize the limb">>,
                              <<"Immobilize the limb", "Give TXA", "Apply a tourniquet">>} :
           \/ /\ hScript \in {"ask_hybrid", "ask_cloud"}
              /\ hPrompt' = Some([clinical_info |-> clinical_info,
                                  prompt |-> prompt(question, clinical_info, hHistory)])
           \/ /\ clinical_info = <<>>
              /\ hPrompt' = None
    /\ hHistory' = StoreConversation(hHistory, TurnOf(question), HistoryCap(hScript))
    /\ hLog' = Append(hLog, TurnOf(question))
    /\ UNCHANGED <<hScript, hPc, doseVars, calcVars, indexVars, routerVars>>

\* A quit word or an interrupt ends the loop.
HQuit ==
    /\ hPc = "prompt"
    /\ hPc' = "stopped"
    /\ UNCHANGED <<hScript, hHistory, hLog, hPrompt>>
    /\ UNCHANGED <<doseVars, calcVars, indexVars, routerVars>>

NextHistory ==
    \/ HEmptyQuestion
    \/ HTurnRaises
    \/ \E question \in {"ketamine rsi 80kg", "explain snake bite protocol"} :
           HCompleteTurn(question)
    \/ HQuit

SpecHistory == InitHistory /\ [][NextHistory]_vars

\* C2: after any number of completed turns the history holds at most its cap
\* and is exactly the most recent min(n, cap) turns, oldest first.
C2_HistoryIsMostRecentTurns ==
    hPc # "off" =>
        /\ Len(hHistory) <= HistoryCap(hScript)
        /\ hHistory = SubSeq(hLog,
                             IF Len(hLog) < HistoryCap(hScript)
                             THEN 1
                             ELSE Len(hLog) - HistoryCap(hScript) + 1,
                             Len(hLog))

\* C2 witness: the loop with the largest cap has evicted at least two turns.
C2_Witness ==
    /\ hScript = "VoiceAssistant"
    /\ Len(hLog) >= MAX_CONVERSATION_HISTORY + 2
    /\ Len(hHistory) = MAX_CONVERSATION_HISTORY
    /\ hHistory[1] = hLog[Len(hLog) - MAX_CONVERSATION_HISTORY + 1]

(***************************************************************************)
(* The indexing pipeline: scripts/build_index.py, scripts/utils.py, and    *)
(* the reader of its files, scripts/ask.py                                 *)
(*                                                                         *)
(* A vector of the index is kept as the chunk it encodes.  The 'try' of    *)
(* the PDF branch (build_index.py lines 39-45) is read with the            *)
(* indentation of the TXT branch.                                          *)
(***************************************************************************)
\* chunk_size: 512 characters in the code, scaled down to keep texts short.
ChunkSize == 2

EndsWith(s, suffix) ==
    /\ Len(s) >= Len(suffix)
    /\ SubSeq(s, Len(s) - Len(suffix) + 1, Len(s)) = suffix

\* Faulty variant of ChunkTexts: a last window shorter than chunk_size is
\* dropped.
ChunkTextsOfFullWindows(text) ==
    [k \in 1..(Len(text) \div ChunkSize) |->
        SubSeq(text, (k - 1) * ChunkSize + 1, k * ChunkSize)]

\* [text[j:j+chunk_size] for j in range(0, len(text), chunk_size)]
ChunkTexts(text) ==
    [k \in 1..((Len(text) + ChunkSize - 1) \div ChunkSize) |->
        SubSeq(text, (k - 1) * ChunkSize + 1, Min2(k * ChunkSize, Len(text)))]

\* From page i (counted from 1) on, each chunk paired with its page number;
\* a page without text gives none.
RECURSIVE PdfChunksFrom(_, _)
PdfChunksFrom(pages, i) ==
    IF i > Len(pages) THEN <<>>
    ELSE IF pages[i] = "" THEN PdfChunksFrom(pages, i + 1)
    ELSE [k \in 1..Len(ChunkTexts(pages[i])) |->
             <<ChunkTexts(pages[i])[k], i>>]
         \o PdfChunksFrom(pages, i + 1)

\* utils.extract_chunks_from_pdf, on the page texts of the PDF.
extract_chunks_from_pdf(pages) == PdfChunksFrom(pages, 1)

\* What one file of PDFS_DIR adds to all_chunks and metadata: a sequence of
\* [chunk, meta].  A file that cannot be read or parsed raises before
\* anything is appended and adds nothing.
FileEntries(file) ==
    IF EndsWith(file.name, ".pdf") /\ file.readable
    THEN LET chunks == extract_chunks_from_pdf(file.texts)
         IN  [k \in 1..Len(chunks) |->
                 [chunk |-> chunks[k][1],
                  meta |-> [file |-> file.name, page |-> chunks[k][2]]]]
    ELSE IF EndsWith(file.name, ".txt") /\ file.readable
    THEN LET chunks == ChunkTexts(file.texts[1])
         IN  [k \in 1..Len(chunks) |->
                 [chunk |-> chunks[k],
                  meta |-> [file |-> file.name, page |-> k]]]
    ELSE <<>>

RECURSIVE AllEntries(_)
AllEntries(files) ==
    IF files = <<>> THEN <<>>
    ELSE FileEntries(Head(files)) \o AllEntries(Tail(files))

\* utils.save_docs_text: the text written to DOCS_PATH.
RECURSIVE save_docs_text(_)
save_docs_text(chunks) ==
    IF chunks = <<>> THEN ""
    ELSE (Head(chunks) \o "\n") \o save_docs_text(Tail(chunks))

\* The position of the first line break of s, Len(s) + 1 if none.
RECURSIVE LineEnd(_, _)
LineEnd(s, i) ==
    IF i > Len(s) THEN i
    ELSE IF Char(s, i) = "\n" THEN i
    ELSE LineEnd(s, i + 1)

\* file.readlines(): the lines of the text, each with its line break.
RECURSIVE readlines(_)
readlines(s) ==
    IF s = "" THEN <<>>
    ELSE IF LineEnd(s, 1) > Len(s) THEN <<s>>
    ELSE <<SubSeq(s, 1, LineEnd(s, 1))>>
         \o readlines(SubSeq(s, LineEnd(s, 1) + 1, Len(s)))

(***************************************************************************)
(* Specification SpecIndex: one run of build_index over a corpus, then the *)
(* query script loading the files                                          *)
(***************************************************************************)
MaxFiles == 2
MaxPages == 2

\* A file: the page texts of a PDF, or the one content of another file.
Files ==
    LET PageTexts == {"", "ab", "abc", "a\nb", "ab\n"}
    IN  UNION {{[name |-> name, texts |-> t, readable |-> r] :
                   t \in (IF EndsWith(name, ".pdf")
                          THEN UNION {[1..n -> PageTexts] : n \in 1..MaxPages}
                          ELSE [1..1 -> PageTexts]),
                   r \in BOOLEAN} :
               name \in {"cpg.pdf", "notes.txt", "README.md"}}

\* os.listdir(PDFS_DIR): distinct names, in any order.
Corpora ==
    {c \in UNION {[1..n -> Files] : n \in 1..MaxFiles} :
        \A i, j \in DOMAIN c : i # j => c[i].name # c[j].name}

InitIndex ==
    /\ iPc = "start"
    /\ iFiles \in Corpora
    /\ iIndex = <<>>
    /\ iMetadata = <<>>
    /\ iDocsFile = ""
    /\ iDocs = <<>>
    /\ iOld = <<>>
    /\ iReader = <<>>
    /\ iAnswer = <<>>
    /\ Idle("index")

\* Faulty variant of BuildFails: the run writes empty files before it exits.
BuildFailsWritingEmpty ==
    /\ iPc = "start"
    /\ AllEntries(iFiles) = <<>>
    /\ iPc' = "exit 1"
    /\ iIndex' = <<>>
    /\ iMetadata' = <<>>
    /\ iDocsFile' = ""
    /\ UNCHANGED <<iFiles, iDocs, iOld, iReader, iAnswer>>
    /\ UNCHANGED <<doseVars, calcVars, histVars, routerVars>>

\* The run ends with sys.exit(1): no PDF or TXT file, or no chunk extracted.
BuildFails ==
    /\ iPc = "start"
    /\ \/ \A i \in DOMAIN iFiles :
              ~EndsWith(iFiles[i].name, ".pdf") /\ ~EndsWith(iFiles[i].name, ".txt")
       \/ AllEntries(iFiles) = <<>>
    /\ iPc' = "exit 1"
    /\ UNCHANGED <<iFiles, iIndex, iMetadata, iDocsFile, iDocs>>
    /\ UNCHANGED <<iOld, iReader, iAnswer>>
    /\ UNCHANGED <<doseVars, calcVars, histVars, routerVars>>

\* A successful run: the index, the metadata and the chunk texts are written.
BuildIndex ==
    /\ iPc = "start"
    /\ AllEntries(iFiles) # <<>>
    /\ iIndex' = [k \in 1..Len(AllEntries(iFiles)) |->
                      AllEntries(iFiles)[k].chunk]
    /\ iMetadata' = [k \in 1..Len(AllEntries(iFiles)) |->
                         AllEntries(iFiles)[k].meta]
    /\ iDocsFile' = save_docs_text(iIndex')
    /\ iPc' = "built"
    /\ UNCHANGED <<iFiles, iDocs, iOld, iReader, iAnswer>>
    /\ UNCHANGED <<doseVars, calcVars, histVars, routerVars>>

\* ask.py: docs = open(DOCS_PATH).readlines()
LoadDocs ==
    /\ iPc = "built"
    /\ iDocs' = readlines(iDocsFile)
    /\ iPc' = "loaded"
    /\ UNCHANGED <<iFiles, iIndex, iMetadata, iDocsFile>>
    /\ UNCHANGED <<iOld, iReader, iAnswer>>
    /\ UNCHANGED <<doseVars, calcVars, histVars, routerVars>>

NextIndex ==
    \/ BuildFails
    \/ BuildIndex
    \/ LoadDocs

SpecIndex == InitIndex /\ [][NextIndex]_vars

\* C1: after a successful run, the index, the metadata and the chunk texts
\* read back with readlines have the same number of entries, and position k
\* of each refers to the same chunk (a line read back is the chunk and its
\* line break).
C1_ArtifactsAligned ==
    iPc = "loaded" =>
        /\ Len(iIndex) = Len(iMetadata)
        /\ Len(iMetadata) = Len(iDocs)
        /\ \A k \in 1..Len(iDocs) : iDocs[k] = iIndex[k] \o "\n"

(***************************************************************************)
(* The response routers: scripts/ask_hybrid.py and scripts/ask_cloud.py    *)
(* (the functions below are the same in both files but for their names)    *)
(***************************************************************************)
\* str.strip()
RECURSIVE LStrip(_)
LStrip(s) == IF s # "" /\ IsSpace(Head(s)) THEN LStrip(Tail(s)) ELSE s

RECURSIVE RStrip(_)
RStrip(s) ==
    IF s # "" /\ IsSpace(Char(s, Len(s)))
    THEN RStrip(SubSeq(s, 1, Len(s) - 1))
    ELSE s

strip(s) == RStrip(LStrip(s))


\* The position of the first character of s at or after i that is in the
\* set seps, Len(s) + 1 if none.
RECURSIVE NextSep(_, _, _)
NextSep(s, i, seps) ==
    IF i > Len(s) THEN i
    ELSE IF Char(s, i) \in seps THEN i
    ELSE NextSep(s, i + 1, seps)

\* s.split(sep) for a one-character sep: empty pieces are kept.
RECURSIVE SplitAt(_, _, _)
SplitAt(s, sep, e) ==
    IF e > Len(s) THEN <<s>>
    ELSE <<SubSeq(s, 1, e - 1)>>
         \o SplitAt(SubSeq(s, e + 1, Len(s)), sep,
                    NextSep(SubSeq(s, e + 1, Len(s)), 1, {sep}))

split(s, sep) == SplitAt(s, sep, NextSep(s, 1, {sep}))

\* s.split(): the maximal runs of non-whitespace characters.
RECURSIVE WordsFrom(_, _)
WordsFrom(s, e) ==
    IF s = "" THEN <<>>
    ELSE <<SubSeq(s, 1, e - 1)>>
         \o WordsFrom(LStrip(SubSeq(s, e, Len(s))),
                      NextSep(LStrip(SubSeq(s, e, Len(s))), 1,
                              {" ", "\n", "\t", "\r"}))

split_words(s) ==
    WordsFrom(LStrip(s), NextSep(LStrip(s), 1, {" ", "\n", "\t", "\r"}))

\* \b holds before position i and after position j of s, for a match s[i..j]
\* that begins and ends with a word character.
WordBounded(s, i, j) ==
    /\ (i = 1 \/ ~IsWordChar(Char(s, i - 1)))
    /\ (j = Len(s) \/ ~IsWordChar(Char(s, j + 1)))

\* re.search(r'\b(w1|w2|...)\b', s) finds a match.
SearchWord(s, words) ==
    \E w \in words : \E i \in 1..(Len(s) - Len(w) + 1) :
        StartsWithAt(s, i, w) /\ WordBounded(s, i, i + Len(w) - 1)

\* \d+\s*kg matches from position i (a digit) to a position where \b holds.
NumKgAt(s, i) ==
    /\ IsDigit(Char(s, i))
    /\ (i = 1 \/ ~IsWordChar(Char(s, i - 1)))
    /\ StartsWithAt(s, SkipSpaces(s, DigitRunEnd(s, i) + 1), "kg")
    /\ WordBounded(s, i, SkipSpaces(s, DigitRunEnd(s, i) + 1) + 1)

\* re.search(r'\b\d+\s*kg\b', s) finds a match.
SearchNumKg(s) == \E i \in 1..Len(s) : NumKgAt(s, i)

\* The end of the run of word characters that starts at i (i - 1 if none).
RECURSIVE WordRunEnd(_, _)
WordRunEnd(s, i) ==
    IF i <= Len(s) /\ IsWordChar(Char(s, i)) THEN WordRunEnd(s, i + 1) ELSE i - 1

\* re.search(r'^\w+\s+\w+$', s) finds a match: two words and nothing else
\* ('$' also matches before one final line break).
TwoWordsFrom(s, e1, b2) ==
    /\ e1 >= 1
    /\ b2 > e1 + 1
    /\ b2 <= Len(s)
    /\ WordRunEnd(s, b2) >= b2
    /\ \/ WordRunEnd(s, b2) = Len(s)
       \/ WordRunEnd(s, b2) = Len(s) - 1 /\ Char(s, Len(s)) = "\n"

SearchTwoWords(s) ==
    TwoWordsFrom(s, WordRunEnd(s, 1), SkipSpaces(s, WordRunEnd(s, 1) + 1))

\* Weights of the routers are floats; the model keeps them in millionths of
\* a kilogram, which holds n * 0.453592 exactly.
Micro == 1000000
PoundFactor == 453592

\* extract_weight: the k-th pattern searched in the lowered question.
extract_weight_patterns(k, q) ==
    CASE k = 1 -> SearchNumUnit(q, {"kg"})
      [] k = 2 -> SearchNumUnit(q, {"kilo"})
      [] k = 3 -> SearchNumUnit(q, {"pound"})
      [] k = 4 -> SearchNumUnit(q, {"lb"})
      [] k = 5 -> SearchNumUnitSuffix(q, {"kg"}, "pt")
      [] k = 6 -> SearchNumUnitSuffix(q, {"kg"}, "patient")

\* group(1) of the first pattern that matches, from pattern k on.
RECURSIVE FirstWeightMatch(_, _)
FirstWeightMatch(k, q) ==
    IF k > 6 THEN None
    ELSE IF extract_weight_patterns(k, q) # None
    THEN extract_weight_patterns(k, q)
    ELSE FirstWeightMatch(k + 1, q)

\* float(match.group(1)), times 0.453592 if 'pound' or 'lb' is in the question.
ConvertWeight(q, match) ==
    IF match = None THEN None
    ELSE IF Contains(q, "pound") \/ Contains(q, "lb")
    THEN Some(ParseInt(Val(match)) * PoundFactor)
    ELSE Some(ParseInt(Val(match)) * Micro)

\* Faulty variant of extract_weight: 70 kg when no pattern matches.
ExtractWeightOrDefault(question) ==
    IF FirstWeightMatch(1, lower(question)) = None THEN Some(70 * Micro)
    ELSE ConvertWeight(lower(question), FirstWeightMatch(1, lower(question)))

extract_weight(question) ==
    ConvertWeight(lower(question), FirstWeightMatch(1, lower(question)))

\* The end of the match of \d+(?:\.\d+)? that starts at the digit at i.
NumberEnd(s, i) ==
    IF /\ DigitRunEnd(s, i) + 2 <= Len(s)
       /\ Char(s, DigitRunEnd(s, i) + 1) = "."
       /\ IsDigit(Char(s, DigitRunEnd(s, i) + 2))
    THEN DigitRunEnd(s, DigitRunEnd(s, i) + 2)
    ELSE DigitRunEnd(s, i)

\* re.findall(r'\d+(?:\.\d+)?', s), from position i on.
RECURSIVE FindNumbersFrom(_, _)
FindNumbersFrom(s, i) ==
    IF i > Len(s) THEN <<>>
    ELSE IF IsDigit(Char(s, i))
    THEN <<SubSeq(s, i, NumberEnd(s, i))>> \o FindNumbersFrom(s, NumberEnd(s, i) + 1)
    ELSE FindNumbersFrom(s, i + 1)

\* float(number) in tenths; the dosage texts have at most one decimal.
ParseTenths(number) ==
    ParseInt(SubSeq(number, 1, NextSep(number, 1, {"."}) - 1)) * 10
    + (IF NextSep(number, 1, {"."}) < Len(number)
       THEN DigitOf[Char(number, NextSep(number, 1, {"."}) + 1)]
       ELSE 0)

\* x / m rounded to the nearest integer, a tie going to the even one.
RoundDiv(x, m) ==
    IF 2 * (x % m) > m THEN (x \div m) + 1
    ELSE IF 2 * (x % m) < m THEN x \div m
    ELSE (x \div m) + ((x \div m) % 2)

\* round(dose * weight, 1) in tenths, for a dose in tenths and a weight in
\* millionths.
RoundedTotal(dose, weight) ==
    dose * (weight \div Micro) + RoundDiv(dose * (weight % Micro), Micro)

\* str() of a float with one decimal, given in tenths.
FormatTenths(t) == (ToString(t \div 10) \o ".") \o ToString(t % 10)

\* The digits of a fraction f < 10^n in n places, without trailing zeros.
RECURSIVE FractionDigits(_, _)
FractionDigits(f, unit) ==
    IF f = 0 \/ unit = 0 THEN ""
    ELSE ToString(f \div unit) \o FractionDigits(f % unit, unit \div 10)

\* str() of a weight.
FormatWeight(w) ==
    (ToString(w \div Micro) \o ".")
    \o (IF w % Micro = 0 THEN "0" ELSE FractionDigits(w % Micro, Micro \div 10))

\* calculate_dosage(base_dosage, weight), on the numbers found in base_dosage.
DosageOfNumbers(base_dosage, numbers, weight) ==
    IF Len(numbers) >= 2
    THEN ((FormatTenths(RoundedTotal(ParseTenths(numbers[1]), weight)) \o "-")
          \o FormatTenths(RoundedTotal(ParseTenths(numbers[2]), weight))) \o "mg"
    ELSE IF Len(numbers) = 1
    THEN FormatTenths(RoundedTotal(ParseTenths(numbers[1]), weight)) \o "mg"
    ELSE base_dosage

calculate_dosage(base_dosage, weight) ==
    DosageOfNumbers(base_dosage, FindNumbersFrom(base_dosage, 1), weight)

\* A dosage answer of get_fast_response: with the total for the weight if one
\* was extracted ('if weight:'), else the base dosage only.
DosageAnswer(label, base_dosage, weight) ==
    IF Truthy(weight)
    THEN ((((((label \o ": ") \o base_dosage) \o " = ")
            \o calculate_dosage(base_dosage, Val(weight))) \o " for ")
          \o FormatWeight(Val(weight))) \o "kg patient"
    ELSE (label \o ": ") \o base_dosage

\* any(word in sentence.lower() for word in question_lower.split())
AnyWordIn(words, sentence_lower) ==
    \E k \in 1..Len(words) : Contains(sentence_lower, words[k])

\* The first sentence, from the k-th on, that holds a word of the question:
\* sentence.strip()[:150]; None if there is none.
RECURSIVE FirstSentenceWith(_, _, _)
FirstSentenceWith(sentences, k, words) ==
    IF k > Len(sentences) THEN None
    ELSE IF AnyWordIn(words, lower(sentences[k]))
    THEN Some(Prefix(strip(sentences[k]), 150))
    ELSE FirstSentenceWith(sentences, k + 1, words)

\* get_fast_response after question.lower() and extract_weight(question).
FastResponse(question_lower, weight, clinical_info) ==
    IF Contains(question_lower, "ketamine")
       /\ (Contains(question_lower, "rsi") \/ Contains(question_lower, "induction"))
    THEN Some(DosageAnswer("Ketamine RSI", "1-2 mg/kg IV", weight))
    ELSE IF Contains(question_lower, "ketamine") /\ Contains(question_lower, "pain")
    THEN Some(DosageAnswer("Ketamine pain", "0.1-0.5 mg/kg IV", weight))
    ELSE IF ~Contains(question_lower, "ketamine")
            /\ (Contains(question_lower, "txa") \/ Contains(question_lower, "tranexamic"))
    THEN IF Contains(question_lower, "im")
         THEN Some("TXA: Not recommended IM. Use 1g IV bolus, then 1g over 8h")
         ELSE Some("TXA: 1g IV bolus, then 1g over 8h")
    ELSE IF ~Contains(question_lower, "ketamine") /\ Contains(question_lower, "fentanyl")
    THEN Some(DosageAnswer("Fentanyl", "1-2 mcg/kg IV", weight))
    ELSE IF clinical_info # <<>>
    THEN FirstSentenceWith(split(join(" ", clinical_info), "."), 1,
                           split_words(question_lower))
    ELSE None

\* get_fast_response(question, clinical_info, conversation_history): a text
\* or None.
get_fast_response(question, clinical_info) ==
    FastResponse(lower(question), extract_weight(question), clinical_info)

\* should_use_llm / should_use_cloud_api on the lowered question.
MatchesFastPattern(question_lower) ==
    \/ SearchWord(question_lower, {"ketamine", "txa", "fentanyl", "morphine"})
    \/ SearchNumKg(question_lower)
    \/ SearchWord(question_lower, {"dose", "dosage", "mg", "mcg"})
    \/ SearchTwoWords(question_lower)

MatchesModelPattern(question_lower) ==
    SearchWord(question_lower,
               {"how", "why", "what", "explain", "describe",
                "protocol", "guideline", "management",
                "assessment", "treatment", "monitoring",
                "patient", "case", "scenario"})

\* Faulty variant of should_use_llm: the fast patterns are not tried first.
ModelPatternOnly(question) == MatchesModelPattern(lower(question))

should_use_llm(question) ==
    IF MatchesFastPattern(lower(question)) THEN FALSE
    ELSE MatchesModelPattern(lower(question))

should_use_cloud_api(question) ==
    IF MatchesFastPattern(lower(question)) THEN FALSE
    ELSE MatchesModelPattern(lower(question))

\* The text of the 'except' branch of the three model functions.
TroubleMessage == "I'm having trouble processing that request right now."

\* The canned answer of main() when nothing else answers.
NoInformation == "I don't have specific information for that query."

\* get_llm_response: the call to the local model returns a text, which is
\* stripped, or raises.
get_llm_response(call) ==
    IF call.raises THEN TroubleMessage ELSE strip(call.text)

\* get_gemini_response: generate_content returns a text, which is stripped,
\* or raises.
get_gemini_response(call) ==
    IF call.raises THEN TroubleMessage ELSE strip(call.text)

\* get_openai_response: line 254 reads the names openai and openai_key, which
\* the module does not define; the NameError is caught.
get_openai_response(call) == TroubleMessage

\* A response that counts as the fast path having answered everything.
AlwaysFailed(response) == TRUE

\* not response: None or the empty text.
NotResponse(response) == IF response = None THEN TRUE ELSE Val(response) = ""

\* The cloud model of ask_cloud: Gemini first, then OpenAI.
CloudTier(apis) == IF "gemini" \in apis THEN "gemini" ELSE "openai"

CloudResponse(apis, call) ==
    IF "gemini" \in apis THEN get_gemini_response(call) ELSE get_openai_response(call)

\* ask_hybrid.main, lines 323-329: the fast path gave 'fast'.
HybridAfterFast(fast, llm, call) ==
    IF NotResponse(fast)
    THEN IF llm
         THEN [tiers |-> <<"fast", "local">>, response |-> get_llm_response(call)]
         ELSE [tiers |-> <<"fast", "canned">>, response |-> NoInformation]
    ELSE [tiers |-> <<"fast">>, response |-> Val(fast)]

\* ask_hybrid.main, lines 315-329: the tiers tried and the response.
HybridRoute(use_llm, question, clinical_info, llm, call) ==
    IF use_llm
    THEN [tiers |-> <<"local">>, response |-> get_llm_response(call)]
    ELSE HybridAfterFast(get_fast_response(question, clinical_info), llm, call)

\* ask_cloud.main, lines 366-381: the fast path gave 'fast'.
CloudAfterFast(fast, apis, call) ==
    IF NotResponse(fast)
    THEN IF apis # {}
         THEN [tiers |-> <<"fast", CloudTier(apis)>>,
               response |-> CloudResponse(apis, call)]
         ELSE [tiers |-> <<"fast", "canned">>, response |-> NoInformation]
    ELSE [tiers |-> <<"fast">>, response |-> Val(fast)]

\* ask_cloud.main, lines 348-381: the tiers tried and the response.
CloudRoute(use_api, question, clinical_info, apis, call) ==
    IF use_api
    THEN [tiers |-> <<CloudTier(apis)>>, response |-> CloudResponse(apis, call)]
    ELSE CloudAfterFast(get_fast_response(question, clinical_info), apis, call)

\* The routing of one question by the script that runs.
Route(script, llm, apis, question, clinical_info, call) ==
    IF script = "ask_hybrid"
    THEN HybridRoute(should_use_llm(question) /\ llm,
                     question, clinical_info, llm, call)
    ELSE CloudRoute(should_use_cloud_api(question) /\ apis # {},
                    question, clinical_info, apis, call)

(***************************************************************************)
(* Specification SpecRouter: the question loop of ask_hybrid / ask_cloud   *)
(***************************************************************************)
\* Completed turns per session.
MaxRouterTurns == 1

\* What input() may deliver, already stripped.
RouterQuestions ==
    {"ketamine RSI 80kg", "Ketamine pain", "TXA IM", "morphine dose",
     "fentanyl for 176 lb patient", "ketamine 80 kg (176 lb)", "snake bite",
     "explain snake bite protocol", "how to treat burns",
     "tourniquet application time limit", "", "quit", "Q"}

\* What search_clinical_info may return: nothing, the str() of a metadata
\* entry written by build_index, the 'text' of entries that have one.
ClinicalInfos ==
    {<<>>,
     <<"{'file': 'cpg.pdf', 'page': 1}">>,
     <<"Apply a tourniquet proximal to the wound. Snake bite: immobilize the limb",
       "Give TXA within 3 hours">>}

\* What the call of the model does: it returns a text or it raises.
ModelCalls ==
    {[raises |-> TRUE, text |-> ""],
     [raises |-> FALSE, text |-> " Immobilize the limb and evacuate.\n"],
     [raises |-> FALSE, text |-> " \n"]}

RouterQuitWords == {"quit", "exit", "q"}

InitRouter ==
    /\ rScript \in {"ask_hybrid", "ask_cloud"}
    /\ rLlm \in (IF rScript = "ask_hybrid" THEN BOOLEAN ELSE {FALSE})
    /\ rApis \in (IF rScript = "ask_cloud" THEN SUBSET {"gemini", "openai"} ELSE {{}})
    /\ rPc = "prompt"
    /\ rHistory = <<>>
    /\ rTurn = <<>>
    /\ Idle("router")

\* A quit word: break.
RQuit(question) ==
    /\ rPc = "prompt"
    /\ lower(question) \in RouterQuitWords
    /\ rPc' = "stopped"
    /\ UNCHANGED <<rScript, rLlm, rApis, rHistory, rTurn>>
    /\ UNCHANGED <<doseVars, calcVars, histVars, indexVars>>

\* An empty question: continue.
REmptyQuestion(question) ==
    /\ rPc = "prompt"
    /\ question = ""
    /\ UNCHANGED vars

\* The number of completed turns.
TurnsDone == IF rTurn = <<>> THEN 0 ELSE rTurn[1].n

\* What a turn leaves: the trace of the turn and the stored conversation.
RecordTurn(question, clinical_info, call, routed) ==
    /\ rTurn' = Some([n |-> TurnsDone + 1,
                      question |-> question,
                      clinical_info |-> clinical_info,
                      call |-> call,
                      tiers |-> routed.tiers,
                      response |-> routed.response])
    /\ rHistory' = StoreConversation(
                       rHistory,
                       [question |-> question, response |-> routed.response],
                       5)

\* One turn: search, route, print, store.
RAsk(question, clinical_info, call) ==
    /\ rPc = "prompt"
    /\ lower(question) \notin RouterQuitWords
    /\ question # ""
    /\ TurnsDone < MaxRouterTurns
    /\ RecordTurn(question, clinical_info, call,
                  Route(rScript, rLlm, rApis, question, clinical_info, call))
    /\ UNCHANGED <<rScript, rLlm, rApis, rPc>>
    /\ UNCHANGED <<doseVars, calcVars, histVars, indexVars>>

NextRouter ==
    \/ \E question \in RouterQuestions : RQuit(question)
    \/ \E question \in RouterQuestions : REmptyQuestion(question)
    \/ \E question \in RouterQuestions, clinical_info \in ClinicalInfos,
          call \in ModelCalls : RAsk(question, clinical_info, call)

SpecRouter == InitRouter /\ [][NextRouter]_vars

\* C8: whatever the backend does (a text, an empty text, an exception), the
\* response of a completed turn, as delivered and as stored in the
\* conversation history, is a non-empty text.
C8_ResponseIsNonEmptyText ==
    rTurn # <<>> =>
        /\ Val(rTurn).response # ""
        /\ rHistory # <<>>
        /\ rHistory[Len(rHistory)].response # ""

\* C9: when the model path is selected and its backend call raises, the fast
\* path is tried next, and if the fast path has an answer for the question
\* that answer is the response.
C9_FailureFallsBackToFast ==
    (rTurn # <<>> /\ Val(rTurn).tiers[1] \in {"local", "gemini", "openai"} /\ Val(rTurn).call.raises) =>
        /\ Len(Val(rTurn).tiers) >= 2
        /\ Val(rTurn).tiers[2] = "fast"
        /\ get_fast_response(Val(rTurn).question, Val(rTurn).clinical_info) # None =>
               Val(rTurn).response =
                   Val(get_fast_response(Val(rTurn).question, Val(rTurn).clinical_info))

\* The tier that follows a fast path without an answer, by what is available.
TierAfterFast ==
    IF rScript = "ask_hybrid" /\ rLlm THEN "local"
    ELSE IF rScript = "ask_cloud" /\ "gemini" \in rApis THEN "gemini"
    ELSE IF rScript = "ask_cloud" /\ "openai" \in rApis THEN "openai"
    ELSE "canned"

\* C10: in a turn that starts on the fast path, an answer of the fast path is
\* the response and no model is called; without one, exactly one further tier
\* follows: the local model if loaded, else the cloud model if available,
\* else the canned answer.  The turn stores exactly one response.
C10_FastFallsThroughInOrder ==
    (rTurn # <<>> /\ Val(rTurn).tiers[1] = "fast") =>
        LET t == Val(rTurn)
            fast == get_fast_response(t.question, t.clinical_info)
        IN  /\ (fast # None /\ fast # Some("")) =>
                   t.tiers = <<"fast">> /\ t.response = Val(fast)
            /\ (fast = None \/ fast = Some("")) =>
                   /\ t.tiers = <<"fast", TierAfterFast>>
                   /\ TierAfterFast = "canned" => t.response = NoInformation
            /\ Len(rHistory) = t.n
            /\ rHistory[Len(rHistory)] =
                   [question |-> t.question, response |-> t.response]

\* C10 witness: the fast path had no answer and the loaded local model was
\* called after it.
C10_Witness ==
    /\ rTurn # <<>>
    /\ rLlm
    /\ Val(rTurn).tiers = <<"fast", "local">>
    /\ get_fast_response(Val(rTurn).question, Val(rTurn).clinical_info) = None

\* C11: the routing decision of a turn.  A question that matches a fast
\* pattern starts on the fast path, whether or not it also matches a
\* conversational pattern; the turn starts on a model path exactly when no
\* fast pattern matches, a conversational pattern matches and the script's
\* backend is available (the local model for ask_hybrid, some API for
\* ask_cloud).
C11_FastPatternWins ==
    rTurn # <<>> =>
        LET ql == lower(Val(rTurn).question)
            backend == IF rScript = "ask_hybrid" THEN rLlm ELSE rApis # {}
        IN  /\ MatchesFastPattern(ql) => Val(rTurn).tiers[1] = "fast"
            /\ Val(rTurn).tiers[1] # "fast" <=>
                   (~MatchesFastPattern(ql) /\ MatchesModelPattern(ql) /\ backend)

\* C11 witness: a question with a drug keyword and a conversational word,
\* the local model loaded, answered from the fast path.
C11_Witness ==
    /\ rTurn # <<>>
    /\ rScript = "ask_hybrid"
    /\ rLlm
    /\ MatchesFastPattern(lower(Val(rTurn).question))
    /\ MatchesModelPattern(lower(Val(rTurn).question))
    /\ Val(rTurn).tiers[1] = "fast"

(***************************************************************************)
(* Retrieval: the query front-ends on the files of the indexing pipeline   *)
(*   "ask"        scripts/ask.py, answer                                   *)
(*   "ask_hybrid" scripts/ask_hybrid.py, main and search_clinical_info     *)
(*   "rest"       jts_service_optimized.py, query                          *)
(***************************************************************************)
\* SentenceTransformer(model).encode(text): a deterministic map from texts
\* to vectors.  A vector is kept as the pair it comes from, so two vectors
\* are at distance 0 exactly when the model and the text are the same.
encode(model, text) == <<model, text>>

\* index.search(q, k) on the flat L2 index built by build_index (its vector
\* p encodes chunk p with 'all-MiniLM-L6-v2'): every row of positions it may
\* return.  Positions count from 0, in ascending distance, so the vectors
\* equal to q come first; the order of the others depends on the embedding
\* and is left open.  An index with fewer than k vectors pads with -1.
search(index, q, k) ==
    {I \in [1..k -> -1..(Len(index) - 1)] :
        /\ \A j \in 1..k : (I[j] = -1) <=> (j > Len(index))
        /\ \A a, b \in 1..k : (a # b /\ I[a] # -1) => I[a] # I[b]
        /\ \A a \in 1..k :
               (I[a] # -1 /\ encode("all-MiniLM-L6-v2", index[I[a] + 1]) # q) =>
                   \A p \in 1..Len(index) :
                       encode("all-MiniLM-L6-v2", index[p]) = q =>
                           \E b \in 1..(a - 1) : I[b] = p - 1}

\* Python's list[i] for -len <= i < len: a negative i counts from the end.
PyItem(list, i) == IF i < 0 THEN list[Len(list) + i + 1] ELSE list[i + 1]

\* str(chunk) of a metadata entry written by build_index.
str(chunk) ==
    "{'file': '" \o chunk.file \o "', 'page': " \o ToString(chunk.page) \o "}"

\* What a front-end makes of the row I of positions.  metadata holds the
\* entries of meta.json; shape is "list" when the file is the array that
\* build_index writes and "chunks" when it is an object holding the same
\* entries under the key 'chunks'.
\*   ask.py 42:                 [docs[i] for i in I[0]]
\*   ask_hybrid.py 84-101:      either shape: idx < len(entries) kept; the
\*                               entry has no 'text', so text = str(chunk)
\*   jts_service_optimized.py 57-73: idx < len(metadata) kept; the entry has
\*                               neither 'text' nor 'content': str(chunk).
\*                               len of the object is 1 and metadata[idx]
\*                               raises KeyError: no chunk is returned
\*   ask_balanced.py 84-93:     metadata.get('chunks', []) raises on a list
\*                               and the handler returns []; on the object,
\*                               idx < len(chunks) kept, the entries returned
Retrieved(frontend, metadata, docs, I, shape) ==
    CASE frontend = "ask" -> [j \in 1..Len(I) |-> PyItem(docs, I[j])]
      [] frontend = "ask_balanced" ->
             IF shape = "list" THEN <<>>
             ELSE LET kept == SelectSeq(I, LAMBDA idx : idx < Len(metadata))
                  IN  [j \in 1..Len(kept) |-> PyItem(metadata, kept[j])]
      [] frontend = "rest" /\ shape = "chunks" -> <<>>
      [] OTHER ->
             LET kept == SelectSeq(I, LAMBDA idx : idx < Len(metadata))
             IN  [j \in 1..Len(kept) |-> str(PyItem(metadata, kept[j]))]

\* One question to a front-end that has loaded the files.
\*   ask.py 49-50: the input goes to answer() as it is.
\*   ask_hybrid.py 299-312, ask_balanced.py 156-170: the input is stripped;
\*       an empty one: continue.
\*   jts_service_optimized.py 43-54: 'if not question': 400.
\* The scripts embed with 'all-MiniLM-L6-v2' and ask for 3 neighbours, the
\* service with 'paraphrase-MiniLM-L3-v2' for 2.  A KeyError in the service
\* is answered with 500 (87-88).
Query(frontend, input) ==
    /\ iPc = "loaded"
    /\ iAnswer = <<>>
    /\ LET question == IF frontend \in {"ask_hybrid", "ask_balanced"}
                       THEN strip(input) ELSE input
       IN  \/ /\ frontend # "ask"
              /\ question = ""
              /\ iAnswer' = Some([frontend |-> frontend, input |-> input,
                                  shape |-> "list",
                                  searched |-> FALSE, I |-> <<>>,
                                  results |-> <<>>,
                                  status |-> IF frontend = "rest"
                                             THEN "400 No question provided"
                                             ELSE "continue"])
           \/ /\ frontend = "ask" \/ question # ""
              /\ \E I \in search(iIndex,
                                 encode(IF frontend = "rest"
                                        THEN "paraphrase-MiniLM-L3-v2"
                                        ELSE "all-MiniLM-L6-v2", question),
                                 IF frontend = "rest" THEN 2 ELSE 3),
                    shape \in {"list", "chunks"} :
                     iAnswer' = Some([frontend |-> frontend, input |-> input,
                                      shape |-> shape,
                                      searched |-> TRUE, I |-> I,
                                      results |-> Retrieved(frontend, iMetadata,
                                                            iDocs, I, shape),
                                      status |->
                                          IF /\ frontend = "rest"
                                             /\ shape = "chunks"
                                             /\ \E j \in 1..Len(I) : I[j] < 1
                                          THEN "500 KeyError"
                                          ELSE "answered"])
    /\ UNCHANGED <<iPc, iFiles, iIndex, iMetadata, iDocsFile, iDocs>>
    /\ UNCHANGED <<iOld, iReader>>
    /\ UNCHANGED <<doseVars, calcVars, histVars, routerVars>>

(***************************************************************************)
(* Specification SpecQuery: build_index over one file, the files loaded,   *)
(* one question                                                            *)
(***************************************************************************)
InitQuery ==
    /\ InitIndex
    /\ Len(iFiles) = 1

NextQuery ==
    \/ NextIndex
    \/ \E frontend \in {"ask", "ask_hybrid", "ask_balanced", "rest"},
          input \in {iIndex[p] : p \in DOMAIN iIndex} \cup {"", " ", "zz"} :
           Query(frontend, input)

SpecQuery == InitQuery /\ [][NextQuery]_vars

\* C12: when the index holds fewer vectors than the k asked for, the
\* front-end returns the entries of the positions that are not padding, each
\* once and in the order of the search, and nothing for a padded position.
C12_PaddedPositionsDropped ==
    (/\ iAnswer # <<>>
     /\ Val(iAnswer).searched
     /\ Len(iIndex) < Len(Val(iAnswer).I)) =>
        Val(iAnswer).results =
            Retrieved(Val(iAnswer).frontend, iMetadata, iDocs,
                      SubSeq(Val(iAnswer).I, 1, Len(iIndex)),
                      Val(iAnswer).shape)

(***************************************************************************)
(* Specification SpecRerun: build_index runs again over PDFS_DIR while a   *)
(* query script (ask.py, lines 33-35) loads the three files.  The run      *)
(* writes the files one after the other (lines 80, 82-83, 85) and the      *)
(* script reads them one after the other, so each file is one step.        *)
(***************************************************************************)
\* The files before the run: absent, or written by an earlier run over a
\* directory holding notes.txt.  The query script has not read anything.
InitRerun ==
    /\ iPc = "start"
    /\ iFiles \in {c \in Corpora : Len(c) = 1}
    /\ \E old \in {<<>>} \cup {c \in Corpora : /\ Len(c) = 1
                                              /\ c[1].name = "notes.txt"
                                              /\ AllEntries(c) # <<>>} :
           /\ iIndex = [k \in 1..Len(AllEntries(old)) |-> AllEntries(old)[k].chunk]
           /\ iMetadata = [k \in 1..Len(AllEntries(old)) |-> AllEntries(old)[k].meta]
           /\ iDocsFile = save_docs_text(iIndex)
    /\ iOld = [index |-> iIndex, metadata |-> iMetadata, docs |-> iDocsFile]
    /\ iReader = [pc |-> "start", index |-> <<>>, metadata |-> <<>>]
    /\ iDocs = <<>>
    /\ iAnswer = <<>>
    /\ Idle("index")

\* The next write of a run that has chunks: faiss.write_index (line 80),
\* json.dump (82-83), save_docs_text (85).
WriteArtifact ==
    /\ AllEntries(iFiles) # <<>>
    /\ \/ /\ iPc = "start"
          /\ iIndex' = [k \in 1..Len(AllEntries(iFiles)) |->
                            AllEntries(iFiles)[k].chunk]
          /\ iPc' = "index written"
          /\ UNCHANGED <<iMetadata, iDocsFile>>
       \/ /\ iPc = "index written"
          /\ iMetadata' = [k \in 1..Len(AllEntries(iFiles)) |->
                               AllEntries(iFiles)[k].meta]
          /\ iPc' = "metadata written"
          /\ UNCHANGED <<iIndex, iDocsFile>>
       \/ /\ iPc = "metadata written"
          /\ iDocsFile' = save_docs_text(iIndex)
          /\ iPc' = "built"
          /\ UNCHANGED <<iIndex, iMetadata>>
    /\ UNCHANGED <<iFiles, iDocs, iOld, iReader, iAnswer>>
    /\ UNCHANGED <<doseVars, calcVars, histVars, routerVars>>

\* The next read of the query script: faiss.read_index (ask.py 33),
\* json.load (34), readlines (35).  A file that is not there cannot be read.
ReadArtifact ==
    /\ \/ /\ iReader.pc = "start"
          /\ iIndex # <<>>
          /\ iReader' = [iReader EXCEPT !.pc = "index", !.index = iIndex]
          /\ UNCHANGED iDocs
       \/ /\ iReader.pc = "index"
          /\ iMetadata # <<>>
          /\ iReader' = [iReader EXCEPT !.pc = "metadata", !.metadata = iMetadata]
          /\ UNCHANGED iDocs
       \/ /\ iReader.pc = "metadata"
          /\ iDocsFile # ""
          /\ iReader' = [iReader EXCEPT !.pc = "loaded"]
          /\ iDocs' = readlines(iDocsFile)
    /\ UNCHANGED <<iPc, iFiles, iIndex, iMetadata, iDocsFile, iOld, iAnswer>>
    /\ UNCHANGED <<doseVars, calcVars, histVars, routerVars>>

NextRerun ==
    \/ BuildFails
    \/ WriteArtifact
    \/ ReadArtifact

SpecRerun == InitRerun /\ [][NextRerun]_vars

\* C13: a run over a directory that yields no chunk (no .pdf or .txt file,
\* or files that give no chunk or cannot be read) writes nothing and ends
\* with exit status 1: the three files stay as they were before the run,
\* absent if they were absent.
C13_NothingToIndexWritesNothing ==
    /\ AllEntries(iFiles) = <<>> =>
           /\ iPc \in {"start", "exit 1"}
           /\ iOld = [index |-> iIndex, metadata |-> iMetadata, docs |-> iDocsFile]
    /\ iPc = "exit 1" => AllEntries(iFiles) = <<>>

\* C13 witness: the run has failed and the files of an earlier run exist.
C13_Witness ==
    /\ iPc = "exit 1"
    /\ iOld.index # <<>>
    /\ iIndex = iOld.index

\* C14: a query script that has loaded the three files while the run wrote
\* them holds either the three files of before the run or the three files
\* of the run.
C14_ReaderSeesOneRun ==
    (iReader # <<>> /\ iReader.pc = "loaded") =>
        \/ /\ iReader.index = iOld.index
           /\ iReader.metadata = iOld.metadata
           /\ iDocs = readlines(iOld.docs)
        \/ /\ iReader.index =
                  [k \in 1..Len(AllEntries(iFiles)) |-> AllEntries(iFiles)[k].chunk]
           /\ iReader.metadata =
                  [k \in 1..Len(AllEntries(iFiles)) |-> AllEntries(iFiles)[k].meta]
           /\ iDocs = readlines(save_docs_text(iReader.index))

\* C15: a question whose weight is matched by the pound pattern (no kilogram
\* pattern matches before it) gives the matched number times 0.453592 as the
\* weight, in kilograms (compared in millionths of a kilogram).
C15_PoundsConverted ==
    (/\ cQuestion # None
     /\ weight_patterns(1, lower(Val(cQuestion))) = None
     /\ weight_patterns(2, lower(Val(cQuestion))) # None) =>
        /\ cWeight # None
        /\ Val(cWeight) * Micro =
               ParseInt(Val(weight_patterns(2, lower(Val(cQuestion))))) * PoundFactor

\* C16: calculate_dose returns the not-found result (None and a message), and
\* no dose, for a drug that is not in the table and for an indication
\* keyword that the drug has no rule for.
C16_NotFoundWithoutRule ==
    dResult # <<>> =>
        /\ dDrug \notin DOMAIN dosing_protocols => Len(dResult) = 2
        /\ \A kw \in {"rsi", "pain", "sedation", "induction", "trauma"} :
               (/\ dDrug \in DOMAIN dosing_protocols
                /\ dIndication = kw
                /\ ~HasIndication(dDrug, kw)) => Len(dResult) = 2

\* C20: a dose is returned with an indication that the table defines for the
\* drug; when the text holds none of the indication keywords it is the first
\* indication of the drug's table.
C20_DefaultsToFirstIndication ==
    (dResult # <<>> /\ Len(dResult) = 3) =>
        /\ \E k \in 1..Len(dosing_protocols[dDrug]) :
               dosing_protocols[dDrug][k].ind = dResult[3]
        /\ (\A kw \in {"rsi", "rapid sequence", "pain", "sedation",
                       "induction", "trauma"} :
                ~Contains(lower(dIndication), kw)) =>
               dResult[3] = dosing_protocols[dDrug][1].ind

\* C20 witness: propofol, whose table has two indications, with a text
\* without keyword: the first one, induction, is returned.
C20_Witness ==
    /\ dResult # <<>>
    /\ dDrug = "propofol"
    /\ dIndication = "general"
    /\ Len(dResult) = 3
    /\ dResult[3] = "induction"

\* C17: a question that is empty or holds only white space is rejected by
\* ask_hybrid and by the REST service before anything is searched, and the
\* service answers it with 400 'No question provided'.
C17_BlankQuestionRejected ==
    (/\ iAnswer # <<>>
     /\ Val(iAnswer).frontend \in {"ask_hybrid", "rest"}
     /\ strip(Val(iAnswer).input) = "") =>
        /\ ~Val(iAnswer).searched
        /\ Val(iAnswer).results = <<>>
        /\ Val(iAnswer).frontend = "rest" =>
               Val(iAnswer).status = "400 No question provided"

\* C19: a question that is the exact text of an indexed chunk is answered,
\* by every front-end, with that chunk first: the first position of the
\* search holds a chunk with this text (distance 0) and the first result is
\* the text (for ask.py, the text and the line break of its line; what
\* ask_balanced returns are metadata entries, never a text).
C19_ExactChunkIsTop1 ==
    (/\ iAnswer # <<>>
     /\ \E p \in DOMAIN iIndex : iIndex[p] = Val(iAnswer).input) =>
        /\ Val(iAnswer).searched
        /\ iIndex[Val(iAnswer).I[1] + 1] = Val(iAnswer).input
        /\ Val(iAnswer).results # <<>>
        /\ IF Val(iAnswer).frontend = "ask_balanced" THEN FALSE
           ELSE Val(iAnswer).results[1] \in
                    {Val(iAnswer).input, Val(iAnswer).input \o "\n"}

(***************************************************************************)
(* Specification SpecBackend: the question loop of ask_hybrid / ask_cloud  *)
(* with the call of the generation backend as a step of its own.  The      *)
(* call is a plain function call (ask_hybrid.py 226-231, ask_cloud.py 227, *)
(* 255-260): the loop goes on when the callee returns or raises.           *)
(***************************************************************************)
\* The routing of the question reaches a call of a generation backend.
CallsBackend(question, clinical_info) ==
    Route(rScript, rLlm, rApis, question, clinical_info,
          [raises |-> TRUE, text |-> ""]).tiers
        \notin {<<"fast">>, <<"fast", "canned">>}

\* An accepted question is routed to a backend: main enters the function of
\* the backend (get_llm_response, get_gemini_response, get_openai_response).
RCall(question, clinical_info) ==
    /\ rPc = "prompt"
    /\ lower(question) \notin RouterQuitWords
    /\ question # ""
    /\ TurnsDone < MaxRouterTurns
    /\ CallsBackend(question, clinical_info)
    /\ rPc' = "routed"
    /\ rTurn' = Some([n |-> TurnsDone, question |-> question,
                      clinical_info |-> clinical_info])
    /\ UNCHANGED <<rScript, rLlm, rApis, rHistory>>
    /\ UNCHANGED <<doseVars, calcVars, histVars, indexVars>>

\* The function builds its prompt and calls the backend.
RInvoke ==
    /\ rPc = "routed"
    /\ rPc' = "calling"
    /\ UNCHANGED <<rScript, rLlm, rApis, rHistory, rTurn>>
    /\ UNCHANGED <<doseVars, calcVars, histVars, indexVars>>

\* The call returns a text or raises: the turn is completed.
RReturn(call) ==
    /\ rPc = "calling"
    /\ RecordTurn(Val(rTurn).question, Val(rTurn).clinical_info, call,
                  Route(rScript, rLlm, rApis, Val(rTurn).question,
                        Val(rTurn).clinical_info, call))
    /\ rPc' = "prompt"
    /\ UNCHANGED <<rScript, rLlm, rApis>>
    /\ UNCHANGED <<doseVars, calcVars, histVars, indexVars>>

NextBackend ==
    \/ \E question \in RouterQuestions : RQuit(question)
    \/ \E question \in RouterQuestions : REmptyQuestion(question)
    \/ \E question \in RouterQuestions, clinical_info \in ClinicalInfos,
          call \in ModelCalls :
           /\ RAsk(question, clinical_info, call)
           /\ ~CallsBackend(question, clinical_info)
    \/ \E question \in RouterQuestions, clinical_info \in ClinicalInfos :
           RCall(question, clinical_info)
    \/ RInvoke
    \/ \E call \in ModelCalls : RReturn(call)

\* The script's own step, from the routing to the call, is taken when it can
\* be.  The return of the call is up to the backend: the call has no timeout
\* argument and no timer runs beside it, so RReturn carries no fairness.
SpecBackend == InitRouter /\ [][NextBackend]_vars /\ WF_vars(RInvoke)

\* C18: a question that has been accepted and handed to a generation backend
\* is eventually answered, whether or not the backend ever returns.
C18_AcceptedQueryIsAnswered ==
    (rPc = "routed") ~> (rPc = "prompt")

(***************************************************************************)
(* scripts/voice_calculator_quick.py and scripts/voice_jts_local.py: the   *)
(* dose a turn reports                                                     *)
(*                                                                         *)
(* calculate_dose of voice_calculator_quick.py (211-283) is that of        *)
(* voice_calculator_assistant.py with the same table, except that an       *)
(* unknown drug returns None; voice_jts_local.py (191-262) differs from it *)
(* in one literal, the ketamine 'rsi' dose 2.0.                            *)
(***************************************************************************)
\* One turn with a weight and a drug: calculated_dose = calculate_dose(drug,
\* weight, question), then the total the script reports.  Both scripts test
\* '/kg' in unit and report dose * weight, where dose is the total that
\* calculate_dose returned (voice_calculator_quick.main 486-489 prints it;
\* voice_jts_local.get_fallback_response 396-398 returns it, main 491-493
\* prints it and get_ai_enhanced_response 333-335 puts it in the prompt).
\* dResult is <<total_dose, unit, indication, reported, script>>, or <<None>>
\* when calculate_dose returned None.
ReportDose(script) ==
    /\ dResult = <<>>
    /\ dResult' =
           IF dDrug \notin DOMAIN dosing_protocols THEN <<None>>
           ELSE LET ind == DetermineIndication(dDrug, dIndication)
                    rule == Protocol(dDrug, ind)
                    protocol ==
                        IF script = "voice_jts_local" /\ dDrug = "ketamine"
                           /\ ind = "rsi"
                        THEN [rule EXCEPT !.dose = 2 * Scale]
                        ELSE rule
                    dose == IF IsFixed(protocol) THEN protocol.dose
                            ELSE ApplyMax(protocol, protocol.dose * dWeight)
                IN  <<dose, protocol.unit, ind,
                      IF Contains(protocol.unit, "/kg") THEN dose * dWeight
                      ELSE dose,
                      script>>
    /\ UNCHANGED <<dDrug, dWeight, dIndication, calcVars, histVars, indexVars, routerVars>>

SpecReport ==
    InitDose
    /\ [][\E script \in {"voice_jts_local", "voice_calculator_quick"} :
              ReportDose(script)]_vars

\* C21: for a weight-scaled rule the total a turn reports is the dose that
\* calculate_dose returned, and so never exceeds the rule's max.
C21_ReportedTotalIsCalculatedDose ==
    (Len(dResult) = 5 /\ Contains(dResult[2], "/kg")) =>
        /\ dResult[4] = dResult[1]
        /\ Protocol(dDrug, dResult[3]).hasMax =>
               dResult[4] <= Protocol(dDrug, dResult[3]).max

\* C22: in a routed turn whose question is matched by a kg or kilo pattern
\* (the first patterns of the list, so the winning match), the extracted
\* weight is the matched number unchanged, whatever else the question says.
C22_KgMatchReturnedUnchanged ==
    (rTurn # <<>> /\ (\E k \in 1..2 :
         extract_weight_patterns(k, lower(rTurn[1].question)) # None)) =>
        extract_weight(rTurn[1].question) =
            Some(ParseInt(Val(FirstWeightMatch(1, lower(rTurn[1].question))))
                 * Micro)

(***************************************************************************)
(* scripts/voice_jts_vm.py: the voice session with a remembered context    *)
(*                                                                         *)
(* A weight is kept in millionths of a kilogram.  A weight-scaled total is *)
(* kept as its two factors <<dose per kg in 1/Scale, weight>>; a fixed     *)
(* dose as <<dose in 1/Scale>>.  A response is kept as its kind and the    *)
(* values put in its text; the text get_jts_protocol_info may add to it is *)
(* left out.                                                               *)
(***************************************************************************)
\* extract_weight_and_drug(text) = (weight, drug).  Patterns 5 and 6,
\* (\d+)\s*kg\s+patient and patient\s+(\d+)\s*kg, match only where pattern 1
\* has matched before them.  Patterns 7 and 8 are the ones with 'lb' or
\* 'pounds' in the pattern: their number is multiplied by 0.453592.
vm_extract_weight_and_drug(text) ==
    LET weighs(t, i) == SkipSpaces(t, i + 7)
        number(t, i) == SkipSpaces(t, weighs(t, i) + 6)
        at(t) == {i \in 1..Len(t) :
                     /\ StartsWithAt(t, i, "patient")
                     /\ weighs(t, i) > i + 7
                     /\ StartsWithAt(t, weighs(t, i), "weighs")
                     /\ number(t, i) > weighs(t, i) + 6
                     /\ number(t, i) <= Len(t)
                     /\ IsDigit(Char(t, number(t, i)))}
        match(t, k) ==
            CASE k = 1 -> SearchNumUnit(t, {"kg"})
              [] k = 2 -> SearchNumUnit(t, {"kilograms"})
              [] k = 3 -> SearchNumUnit(t, {"kilos"})
              [] k = 4 -> IF at(t) = {} THEN None
                          ELSE Some(SubSeq(t, number(t, MinOf(at(t))),
                                           DigitRunEnd(t, number(t, MinOf(at(t))))))
              [] k \in {5, 6} -> None
              [] k = 7 -> SearchNumUnit(t, {"lb"})
              [] k = 8 -> SearchNumUnit(t, {"pounds"})
        weight(t, matched) ==
            IF matched = {} THEN None
            ELSE Some(ParseInt(Val(match(t, MinOf(matched))))
                      * (IF MinOf(matched) >= 7 THEN PoundFactor ELSE Micro))
        drugs_vm ==
            << <<"ketamine", "ketamine">>, <<"ket", "ketamine">>,
               <<"rocuronium", "rocuronium">>, <<"roc", "rocuronium">>,
               <<"rock", "rocuronium">>,
               <<"succinylcholine", "succinylcholine">>,
               <<"succ", "succinylcholine">>,
               <<"fentanyl", "fentanyl">>, <<"fent", "fentanyl">>,
               <<"morphine", "morphine">>,
               <<"midazolam", "midazolam">>, <<"midaz", "midazolam">>,
               <<"propofol", "propofol">>, <<"etomidate", "etomidate">>,
               <<"tranexamic acid", "tranexamic acid">>,
               <<"txa", "tranexamic acid">>,
               <<"calcium", "calcium gluconate">>,
               <<"furosemide", "furosemide">>, <<"lasix", "furosemide">> >>
        drug(found) ==
            IF found = {} THEN None ELSE Some(drugs_vm[MinOf(found)][2])
        extract(t) ==
            << weight(t, {k \in 1..8 : match(t, k) # None}),
               drug({k \in 1..Len(drugs_vm) : Contains(t, drugs_vm[k][1])}) >>
    IN  extract(lower(text))

\* calculate_dose(weight, drug, indication) = (dose, unit, route), or
\* (None, None, None) without a rule for the drug and the indication.
vm_calculate_dose(weight, drug, indication) ==
    LET kg(dose) == [dose |-> dose, unit |-> "mg/kg"]
        table ==
            [ketamine |-> [rsi |-> kg(200), pain |-> kg(50), sedation |-> kg(100)],
             rocuronium |-> [rsi |-> kg(100), paralysis |-> kg(100)],
             succinylcholine |-> [rsi |-> kg(150), paralysis |-> kg(150)],
             fentanyl |-> [pain |-> [dose |-> 100, unit |-> "mcg/kg"],
                           analgesia |-> [dose |-> 100, unit |-> "mcg/kg"]],
             morphine |-> [pain |-> kg(10), analgesia |-> kg(10)],
             midazolam |-> [sedation |-> kg(5), anxiolysis |-> kg(2)],
             propofol |-> [sedation |-> kg(100), induction |-> kg(200)],
             etomidate |-> [rsi |-> kg(30), induction |-> kg(30)],
             furosemide |-> [diuresis |-> kg(50), fluid_overload |-> kg(50)]]
            @@ ("tranexamic acid" :>
                   [trauma |-> [dose |-> 100, unit |-> "g"],
                    hemorrhage |-> [dose |-> 100, unit |-> "g"]])
            @@ ("calcium gluconate" :>
                   [hypocalcemia |-> [dose |-> 100, unit |-> "g"],
                    cardiac |-> [dose |-> 100, unit |-> "g"]])
    IN  IF drug \notin DOMAIN table THEN <<None, None, None>>
        ELSE IF indication \notin DOMAIN table[drug] THEN <<None, None, None>>
        ELSE IF Contains(table[drug][indication].unit, "/kg")
        THEN <<Some(<<table[drug][indication].dose, weight>>),
               table[drug][indication].unit, "IV">>
        ELSE <<Some(<<table[drug][indication].dose>>),
               table[drug][indication].unit, "IV">>

\* get_fallback_response(question, weight, drug, jts_response): the
\* indication is looked for in the question of this turn.
vm_get_fallback_response(question, weight, drug, jts_response) ==
    LET q == lower(question)
        indication ==
            IF Contains(q, "rsi") \/ Contains(q, "rapid sequence") THEN "rsi"
            ELSE IF Contains(q, "pain") THEN "pain"
            ELSE IF Contains(q, "trauma") THEN "trauma"
            ELSE IF Contains(q, "sedation") THEN "sedation"
            ELSE IF Contains(q, "paralysis") THEN "paralysis"
            ELSE ""
    IN  IF Truthy(weight) /\ drug # None
        THEN IF /\ indication # ""
                /\ vm_calculate_dose(Val(weight), Val(drug), indication)[1] # None
             THEN [kind |-> "dose", drug |-> Val(drug),
                   indication |-> indication,
                   calculated_dose |->
                       vm_calculate_dose(Val(weight), Val(drug), indication)]
             ELSE [kind |-> "need indication", drug |-> Val(drug)]
        ELSE IF jts_response # None
        THEN [kind |-> "jts protocol", text |-> Prefix(Val(jts_response), 100)]
        ELSE [kind |-> "need more information"]

\* The turns a session is followed for.
MaxVoiceTurns == 4

\* One pass of the loop of main for a recognised question: the quit test,
\* extract_weight_and_drug, the context update, the query of the knowledge
\* base (jts_response: what it gave, None when the machine is not connected
\* or every query failed), then get_ai_enhanced_response(question,
\* final_weight, final_drug, jts_response, conversation_history) or
\* get_fallback_response.  cUseAi: OPENAI_API_KEY is set; ai: the chat request
\* returns a reply or raises.  The reply path appends the two messages to
\* the list of main; 'conversation_history = conversation_history[-6:]'
\* rebinds the parameter and leaves that list as it is.
VoiceTurn(question, jts_response, ai) ==
    /\ cPc = "listening"
    /\ cTurns < MaxVoiceTurns
    /\ IF \E w \in {"goodbye", "exit", "quit"} : Contains(question, w)
       THEN /\ cPc' = "stopped"
            /\ jts_response = None /\ ai = "text"
            /\ UNCHANGED <<cQuestion, cWeight, cDrug, cDose, cResponse,
                           cContext, cHistory, cMessages, cTurns>>
       ELSE LET remember(wd, q) ==
                    [weight |-> IF Truthy(wd[1]) THEN wd[1] ELSE cContext.weight,
                     drug |-> IF wd[2] # None THEN wd[2] ELSE cContext.drug,
                     indication |->
                         IF Contains(q, "rsi") \/ Contains(q, "rapid sequence")
                         THEN Some("rsi")
                         ELSE IF Contains(q, "pain") THEN Some("pain")
                         ELSE IF Contains(q, "trauma") THEN Some("trauma")
                         ELSE IF Contains(q, "sedation") THEN Some("sedation")
                         ELSE cContext.indication]
                replied == jts_response # None /\ cUseAi /\ ai = "text"
                answer(context, q) ==
                /\ jts_response # None =>
                       \/ Contains(q, "protocol") \/ Contains(q, "guideline")
                       \/ context.drug # None
                /\ cPc' = cPc
                /\ cContext' = context
                /\ cQuestion' = Some(question)
                /\ cWeight' = context.weight
                /\ cDrug' = context.drug
                /\ cDose' = None
                /\ cResponse' =
                       IF replied THEN Some([kind |-> "ai text"])
                       ELSE Some(vm_get_fallback_response(
                                     question, context.weight, context.drug,
                                     jts_response))
                /\ cMessages' =
                       IF jts_response # None /\ cUseAi
                       THEN Some(SubSeq(cHistory,
                                        IF Len(cHistory) > 4
                                        THEN Len(cHistory) - 3 ELSE 1,
                                        Len(cHistory))
                                 \o <<[role |-> "user", content |-> question]>>)
                       ELSE cMessages
                /\ cHistory' =
                       IF replied
                       THEN cHistory
                            \o <<[role |-> "user", content |-> question],
                                 [role |-> "assistant",
                                  content |-> [kind |-> "ai text"]]>>
                       ELSE cHistory
                /\ cTurns' = cTurns + 1
            IN  /\ (jts_response = None \/ ~cUseAi) => ai = "text"
                /\ answer(remember(vm_extract_weight_and_drug(question),
                                   lower(question)),
                          lower(question))
    /\ UNCHANGED <<cUseAi, doseVars, histVars, indexVars, routerVars>>

SpecVoice ==
    InitCalc
    /\ [][\E question \in {"ketamine rsi", "80 kg", "fentanyl for pain 176 lb",
                           "snake bite protocol", "goodbye"},
             jts_response \in {None, Some("Immobilize the limb.")},
             ai \in {"text", "raise"} :
              VoiceTurn(question, jts_response, ai)]_vars

\* C23: the conversation_history of main never holds more than 6 messages,
\* and no chat request carries more than 6 messages of history.
C23_HistoryKeptToSix ==
    /\ Len(cHistory) <= 6
    /\ cMessages # None => Len(Val(cMessages)) - 1 <= 6

\* C24: when a question has been answered, the conversation memory ends with
\* that question and the response that was returned for it.
C24_TurnIsRemembered ==
    (cQuestion # None /\ cPc = "listening") =>
        /\ Len(cHistory) >= 2
        /\ cHistory[Len(cHistory) - 1].content = Val(cQuestion)
        /\ cHistory[Len(cHistory)].content = Val(cResponse)

\* C28: a turn that states only a weight, in a session that remembers a drug
\* and an indication and answers with its own calculation, gives the dose
\* of the remembered drug for the remembered indication.
C28_WeightOnlyTurnGivesDose ==
    (/\ cQuestion # None
     /\ Truthy(vm_extract_weight_and_drug(Val(cQuestion))[1])
     /\ vm_extract_weight_and_drug(Val(cQuestion))[2] = None
     /\ cContext.drug # None
     /\ cContext.indication # None
     /\ Val(cResponse).kind # "ai text") =>
        /\ Val(cResponse).kind = "dose"
        /\ Val(cResponse).drug = Val(cContext.drug)
        /\ Val(cResponse).indication = Val(cContext.indication)

\* C25: the prompt of a model call holds the first two retrieved chunks in
\* retrieval order, the last three turns completed before the query, oldest
\* first, and the question of the query; the turn of the query is not in it.
C25_PromptHoldsRecentTurns ==
    hPrompt # None =>
        LET p == Val(hPrompt).prompt
            info == Val(hPrompt).clinical_info
            n == Len(hLog) - 1
            line(m) == "User: " \o m.question
                       \o "\nAssistant: " \o m.response \o "\n"
        IN  /\ p.question = hLog[n + 1].question
            /\ p.context =
                   CASE Len(info) = 0 -> "No specific clinical data available."
                     [] Len(info) = 1 -> info[1]
                     [] OTHER -> info[1] \o " " \o info[2]
            /\ p.history =
                   CASE n = 0 -> ""
                     [] n = 1 -> line(hLog[1])
                     [] n = 2 -> line(hLog[1]) \o line(hLog[2])
                     [] OTHER -> line(hLog[n - 2]) \o line(hLog[n - 1])
                                 \o line(hLog[n])

\* C25 witness: a model call with three retrieved chunks in a session whose
\* history has lost turns, the turns before the query being different ones.
C25_Witness ==
    /\ hPrompt # None
    /\ Len(Val(hPrompt).clinical_info) = 3
    /\ Len(hLog) >= 8
    /\ hLog[Len(hLog) - 1] # hLog[Len(hLog) - 3]
    /\ hLog[Len(hLog) - 1] # hLog[Len(hLog)]

\* C26: after a run, the chunks of every text unit that was read (a page of
\* a PDF, the content of a text file) are consecutive windows of the unit:
\* each has 1 to chunk_size characters, each but the last has chunk_size,
\* in order they concatenate to the unit's text, and a unit without text
\* has no chunk.
C26_ChunksAreWindows ==
    iPc \in {"built", "loaded"} =>
        \A f \in 1..Len(iFiles) :
            (/\ iFiles[f].readable
             /\ EndsWith(iFiles[f].name, ".pdf") \/ EndsWith(iFiles[f].name, ".txt")) =>
                \A u \in 1..Len(iFiles[f].texts) :
                    LET at == {k \in 1..Len(iMetadata) :
                                  /\ iMetadata[k].file = iFiles[f].name
                                  /\ \/ EndsWith(iFiles[f].name, ".txt")
                                     \/ iMetadata[k].page = u}
                        last == MinOf(at) + Cardinality(at) - 1
                    IN  /\ (at = {}) <=> (iFiles[f].texts[u] = "")
                        /\ at # {} =>
                               /\ at = MinOf(at)..last
                               /\ \A k \in at :
                                      /\ Len(iIndex[k]) \in 1..ChunkSize
                                      /\ k # last => Len(iIndex[k]) = ChunkSize
                               /\ join("", SubSeq(iIndex, MinOf(at), last))
                                      = iFiles[f].texts[u]

\* C26 witness: a built index with a PDF page of three characters, cut into
\* a full window and a shorter last one, after a page without text.
C26_Witness ==
    /\ iPc = "built"
    /\ \E f \in 1..Len(iFiles) :
           /\ iFiles[f].name = "cpg.pdf"
           /\ iFiles[f].readable
           /\ iFiles[f].texts = <<"", "abc">>
           /\ \E k \in 1..(Len(iIndex) - 1) :
                  /\ iIndex[k] = "ab" /\ iIndex[k + 1] = "c"
                  /\ iMetadata[k].page = 2 /\ iMetadata[k + 1].page = 2

\* C29: whichever of the two shapes meta.json has, a front-end that resolves
\* the positions of a search in the metadata returns the entry of every
\* position, in the order of the search (the row has no padding here).
C29_BothShapesResolved ==
    (/\ iAnswer # <<>>
     /\ Val(iAnswer).searched
     /\ Val(iAnswer).frontend \in {"ask_hybrid", "ask_balanced", "rest"}
     /\ \A j \in 1..Len(Val(iAnswer).I) : Val(iAnswer).I[j] >= 0) =>
        /\ Val(iAnswer).status = "answered"
        /\ Val(iAnswer).results =
               IF Val(iAnswer).frontend = "ask_balanced"
               THEN [j \in 1..Len(Val(iAnswer).I) |->
                        iMetadata[Val(iAnswer).I[j] + 1]]
               ELSE [j \in 1..Len(Val(iAnswer).I) |->
                        str(iMetadata[Val(iAnswer).I[j] + 1])]

(***************************************************************************)
(* jts_service_optimized.py: the REST service and its three globals        *)
(*                                                                         *)
(* iReader holds the process: pc "start" before it runs, "serving" while   *)
(* Flask answers requests, "exited" after an uncaught exception of the     *)
(* start-up; model is TRUE when the global model is not None; index and    *)
(* metadata are <<>> while the globals are None.  The files are those of   *)
(* build_index, which may be running: faiss.read_index and open raise on a *)
(* file that is not there.  The process is started as a script (lines      *)
(* 98-102: load_models, then app.run) or its module is imported by a WSGI  *)
(* server, which runs neither; the handlers of /query and /load call       *)
(* load_models themselves.                                                 *)
(***************************************************************************)
\* The start of the process, or one request.  load_models (lines 22-33)
\* does nothing when model is not None; otherwise it sets model, then index,
\* then metadata, and an exception leaves what was set before it.
Serve(endpoint, question) ==
    LET load_models(model, index, metadata) ==
            IF model
            THEN [model |-> model, index |-> index, metadata |-> metadata,
                  raised |-> FALSE]
            ELSE IF iIndex = <<>>
            THEN [model |-> TRUE, index |-> index, metadata |-> metadata,
                  raised |-> TRUE]
            ELSE IF iMetadata = <<>>
            THEN [model |-> TRUE, index |-> iIndex, metadata |-> metadata,
                  raised |-> TRUE]
            ELSE [model |-> TRUE, index |-> iIndex, metadata |-> iMetadata,
                  raised |-> FALSE]
        globals(pc, l) ==
            [pc |-> pc, model |-> l.model, index |-> l.index,
             metadata |-> l.metadata]
        answer(status) == Some([endpoint |-> endpoint, status |-> status])
        query(l) ==
            /\ iReader' = globals("serving", l)
            /\ IF l.raised \/ l.index = <<>> THEN iAnswer' = answer("500")
               ELSE \E I \in search(l.index,
                                    encode("paraphrase-MiniLM-L3-v2", question), 2) :
                        iAnswer' =
                            IF l.metadata = <<>> THEN answer("500")
                            ELSE Some([endpoint |-> endpoint, status |-> "200",
                                       results |-> Retrieved("rest", l.metadata,
                                                             <<>>, I, "list")])
    IN  /\ \/ /\ endpoint = "main"
              /\ iReader.pc = "start"
              /\ question = ""
              /\ iReader' =
                     globals(IF load_models(FALSE, <<>>, <<>>).raised
                             THEN "exited" ELSE "serving",
                             load_models(FALSE, <<>>, <<>>))
              /\ UNCHANGED iAnswer
           \/ /\ endpoint = "import"
              /\ iReader.pc = "start"
              /\ question = ""
              /\ iReader' = [pc |-> "serving", model |-> FALSE,
                             index |-> <<>>, metadata |-> <<>>]
              /\ UNCHANGED iAnswer
           \/ /\ endpoint = "/health"
              /\ iReader.pc = "serving"
              /\ question = ""
              /\ iAnswer' = Some([endpoint |-> endpoint, status |-> "200",
                                  models_loaded |-> iReader.model])
              /\ UNCHANGED iReader
           \/ /\ endpoint = "/load"
              /\ iReader.pc = "serving"
              /\ question = ""
              /\ iReader' = globals("serving",
                                    load_models(iReader.model, iReader.index,
                                                iReader.metadata))
              /\ iAnswer' = answer(IF load_models(iReader.model, iReader.index,
                                                  iReader.metadata).raised
                                   THEN "500"
                                   ELSE "200 Models loaded successfully")
           \/ /\ endpoint = "/query"
              /\ iReader.pc = "serving"
              /\ IF question = ""
                 THEN /\ iAnswer' = answer("400 No question provided")
                      /\ UNCHANGED iReader
                 ELSE query(load_models(iReader.model, iReader.index,
                                        iReader.metadata))
        /\ UNCHANGED <<iPc, iFiles, iIndex, iMetadata, iDocsFile, iDocs, iOld>>
        /\ UNCHANGED <<doseVars, calcVars, histVars, routerVars>>

SpecService ==
    InitRerun
    /\ [][\/ BuildFails
          \/ WriteArtifact
          \/ \E endpoint \in {"main", "import", "/health", "/load", "/query"},
                question \in {"", "ab"} : Serve(endpoint, question)]_vars

\* C27: while the service answers requests, the model, the index and the
\* metadata are all loaded or all unloaded; a /health answer with
\* models_loaded true and a /load answer of success are given only with the
\* index and the metadata loaded.
C27_AllLoadedOrNone ==
    iReader.pc = "serving" =>
        /\ iReader.model <=> iReader.index # <<>>
        /\ iReader.model <=> iReader.metadata # <<>>
        /\ (/\ iAnswer # <<>>
            /\ Val(iAnswer).endpoint = "/health"
            /\ Val(iAnswer).models_loaded) =>
               (iReader.index # <<>> /\ iReader.metadata # <<>>)
        /\ (/\ iAnswer # <<>>
            /\ Val(iAnswer).status = "200 Models loaded successfully") =>
               (iReader.index # <<>> /\ iReader.metadata # <<>>)

\* C30: in a turn answered by the fast path, no weight is extracted exactly
\* when no weight pattern matches the question; then the answer carries no
\* total, and an answer with a total for a patient weight carries the weight
\* extracted from the question of that turn.
C30_TotalOnlyWithExtractedWeight ==
    (rTurn # <<>> /\ Val(rTurn).tiers = <<"fast">>) =>
        LET t == Val(rTurn)
            nomatch == \A k \in 1..6 :
                           extract_weight_patterns(k, lower(t.question)) = None
        IN  /\ nomatch <=> extract_weight(t.question) = None
            /\ nomatch => /\ ~Contains(t.response, " = ")
                          /\ ~Contains(t.response, "kg patient")
            /\ (nomatch /\ Contains(lower(t.question), "ketamine")
                        /\ Contains(lower(t.question), "pain")) =>
                   t.response = "Ketamine pain: 0.1-0.5 mg/kg IV"
            /\ Contains(t.response, "kg patient") =>
                   /\ extract_weight(t.question) # None
                   /\ Contains(t.response,
                               " for "
                               \o FormatWeight(Val(extract_weight(t.question)))
                               \o "kg patient")

\* C30 witness: a dosage question without a weight, answered by the fast
\* path with the base dosage.
C30_Witness ==
    /\ rTurn # <<>>
    /\ Val(rTurn).tiers = <<"fast">>
    /\ Val(rTurn).question = "Ketamine pain"
    /\ Val(rTurn).response = "Ketamine pain: 0.1-0.5 mg/kg IV"

====
